---- MODULE Spec2Model ----
(***************************************************************************)
(* Authentication and tenant isolation of insight-console                  *)
(* (backend-workers): firm isolation middleware, magic-link issuance and   *)
(* verification, HS256 session tokens and their refresh, the authenticate  *)
(* middleware, the rateLimit middleware, the middleware chains of the      *)
(* resource routes and the execution of workflows; and the token refresh   *)
(* of the frontend's axios instance.                                       *)
(*                                                                         *)
(* Each subsystem has its own specification over the shared variables:     *)
(*   SpecIsolation  the four firm isolation middlewares                    *)
(*   SpecLink       POST /auth/request-magic-link, GET /verify-magic-link, *)
(*                  requests one after the other, with the clock           *)
(*   SpecLinkRace   the same handlers running concurrently                 *)
(*   SpecLinkFaults the same handlers with the database throwing during    *)
(*                  the verification                                       *)
(*   SpecJwt        createToken / verifyToken                              *)
(*   SpecAuth       the authenticate middleware                            *)
(*   SpecRefresh    POST /auth/refresh after one link verification         *)
(*   SpecTenants    two users sign in and use the deal routes              *)
(*   SpecRoutes     a request through the chain of a deal, document or     *)
(*                  workflow route                                         *)
(*   SpecLimits     rateLimit at 3 per hour and request-magic-link with    *)
(*                  its limiter, store and mail faults, over the hour      *)
(*   SpecLimiterRace     two rateLimit calls interleaved                   *)
(*   SpecLimiterClasses  rateLimit under the upload, download and          *)
(*                       workflow configurations                           *)
(*   SpecLimiterFaults   rateLimit with SESSIONS.get / put throwing        *)
(*   SpecLimiterPair     authRateLimit and rateLimit on the same attempts  *)
(*   SpecWorkflows, SpecWorkflowsFair                                      *)
(*                  start-analysis, execute and executeWorkflowAsync       *)
(*   SpecClient, SpecClientFair                                            *)
(*                  the axios instance of the frontend and its refresh     *)
(* Text is modelled as a sequence of character codes (ASCII).              *)
(***************************************************************************)
EXTENDS Integers, Sequences, FiniteSets, TLC

VARIABLES
    deals,        \* table deals: id -> firm_id, for the ids that exist
    documents,    \* table documents: id -> deal_id
    workflows,    \* table workflows: id -> deal_id
    isoLast,      \* the last request through a firm isolation middleware
    now,          \* Date.now(), milliseconds
    magicLinkTokens, \* table magic_link_tokens: set of rows
    users,        \* table users: set of rows
    nextRowId,    \* serial of magic_link_tokens.id
    rateLimitMap, \* authRateLimit's in-process map: email -> {count, resetAt}
    mailbox,      \* (email, raw token) pairs sent by sendMagicLinkEmail
    issuer,       \* the request-magic-link handlers in flight
    verifier,     \* the verify-magic-link handlers in flight
    consumed,     \* history: (email, token) pairs for which tokens were returned
    jwtIssued,    \* session tokens created so far, with what was asked for
    jwtLast,      \* the last verifyToken call and its outcome
    authLast,     \* the last request through authenticate
    routeReq,     \* the request on its way through a resource route
    SESSIONS,     \* the KV namespace of rateLimit: key -> {count, resetAt}
    limiter,      \* the rateLimit middleware calls in flight
    limitLog,     \* history: the rateLimit calls that have ended, in order
    refreshLast,  \* the last POST /auth/refresh call and its response
    client,       \* the browser's axios instance: its flags, queue and requests
    workflowRuns  \* workflows.status and the background execution, per workflow

isoVars  == <<deals, documents, workflows, isoLast>>
linkVars == <<magicLinkTokens, users, nextRowId, rateLimitMap, mailbox,
              issuer, verifier, consumed>>
jwtVars  == <<jwtIssued, jwtLast, authLast>>
moreVars == <<routeReq, SESSIONS, limiter, limitLog>>
lateVars == <<refreshLast, client, workflowRuns>>
vars     == <<isoVars, now, linkVars, jwtVars, moreVars, lateVars>>

(***************************************************************************)
(* Text helpers                                                            *)
(***************************************************************************)
IsDigit(ch) == ch >= 48 /\ ch <= 57

RECURSIVE DigitPrefix(_)
DigitPrefix(s) ==
    IF s = <<>> \/ ~IsDigit(Head(s)) THEN <<>>
    ELSE <<Head(s)>> \o DigitPrefix(Tail(s))

RECURSIVE DigitsValue(_)
DigitsValue(s) ==
    IF s = <<>> THEN 0
    ELSE DigitsValue(SubSeq(s, 1, Len(s) - 1)) * 10 + (s[Len(s)] - 48)

\* NaN, the value of parseInt on text that starts with no digit: no id equals it.
NaN == 0 - 1

\* parseInt(str): the value of the longest prefix of decimal digits, NaN when
\* there is none (ids carry no sign or leading blanks here).
parseInt(s) ==
    LET p == DigitPrefix(s) IN IF p = <<>> THEN NaN ELSE DigitsValue(p)

RECURSIVE ToDigits(_)
\* String(n) for n >= 0: the decimal digits of n.
ToDigits(n) ==
    IF n < 10 THEN <<48 + n>> ELSE ToDigits(n \div 10) \o <<48 + (n % 10)>>

(***************************************************************************)
(* Firm isolation middleware (middleware/firmIsolation.ts)                 *)
(***************************************************************************)
MaxDealId == 2
MaxDocumentId == 1
MaxWorkflowId == 1

FirmA == <<102, 65>>            \* "fA"
FirmB == <<102, 66>>            \* "fB"
NoFirm == <<>>                  \* '' : users.firm_id is nullable, tokens carry ''
Firms == {FirmA, FirmB}

NoUser == [user_id |-> 0, firm_id |-> NoFirm]     \* c.get('user') undefined
IsoUsers == {NoUser} \cup {[user_id |-> 1, firm_id |-> f] : f \in Firms \cup {NoFirm}}

\* Route parameters as text: absent (''), a bare id, an id followed by other
\* characters, and text that is no number.
IsoParams ==
    {<<>>, <<120>>, <<49, 120>>} \cup {ToDigits(n) : n \in 1..(MaxDealId + 1)}

\* SELECT firm_id FROM deals WHERE id = $1
SelectDealFirm(id) ==
    {deals[d] : d \in {x \in DOMAIN deals : x = id}}

\* SELECT d.firm_id FROM documents doc JOIN deals d ON doc.deal_id = d.id
\* WHERE doc.id = $1
SelectDocumentFirm(id) ==
    {deals[d] : d \in {x \in DOMAIN deals :
        \E doc \in DOMAIN documents : doc = id /\ documents[doc] = x}}

\* SELECT d.firm_id FROM workflows w JOIN deals d ON w.deal_id = d.id
\* WHERE w.id = $1
SelectWorkflowFirm(id) ==
    {deals[d] : d \in {x \in DOMAIN deals :
        \E w \in DOMAIN workflows : w = id /\ workflows[w] = x}}

Respond(status) == [status |-> status, handlerRan |-> FALSE]
\* await next(): the downstream handler runs and produces the response.
CallNext == [status |-> 200, handlerRan |-> TRUE]

\* The decision without the comparison of firm ids.
FirmDecisionAnyFirm(result, user) ==
    IF result = {} THEN Respond(404) ELSE CallNext

\* The body shared by the middlewares after the query: 404 on no row, 403 on
\* a firm_id other than the caller's, else next().
FirmDecision(result, user) ==
    IF result = {} THEN Respond(404)
    ELSE IF (CHOOSE f \in result : TRUE) # user.firm_id THEN Respond(403)
    ELSE CallNext

\* p1 is c.req.param('id'), p2 the route's other id parameter; dbOk is FALSE
\* when the query throws.  Whether the store answers a NaN id with no row or
\* with an error is the driver's affair: both are outcomes here.
enforceDealAccess(user, p1, p2, dbOk) ==
    LET dealId == IF p1 # <<>> THEN p1 ELSE p2 IN
    IF user = NoUser THEN Respond(401)
    ELSE IF dealId = <<>> THEN Respond(400)
    ELSE IF ~dbOk THEN Respond(500)
    ELSE FirmDecision(SelectDealFirm(parseInt(dealId)), user)

enforceDocumentAccess(user, p1, p2, dbOk) ==
    LET documentId == IF p1 # <<>> THEN p1 ELSE p2 IN
    IF user = NoUser THEN Respond(401)
    ELSE IF documentId = <<>> THEN Respond(400)
    ELSE IF ~dbOk THEN Respond(500)
    ELSE FirmDecision(SelectDocumentFirm(parseInt(documentId)), user)

enforceWorkflowAccess(user, p1, p2, dbOk) ==
    LET workflowId == IF p1 # <<>> THEN p1 ELSE p2 IN
    IF user = NoUser THEN Respond(401)
    ELSE IF workflowId = <<>> THEN Respond(400)
    ELSE IF ~dbOk THEN Respond(500)
    ELSE FirmDecision(SelectWorkflowFirm(parseInt(workflowId)), user)

ResourceTypes == {"deal", "document", "workflow", "synthesis"}

\* enforceFirmIsolation(resourceType, idParam): one parameter, no fallback.
enforceFirmIsolation(resourceType, user, p1, dbOk) ==
    IF user = NoUser THEN Respond(401)
    ELSE IF p1 = <<>> THEN Respond(400)
    ELSE IF resourceType \notin {"deal", "document", "workflow"} THEN Respond(500)
    ELSE IF ~dbOk THEN Respond(500)
    ELSE FirmDecision(
            CASE resourceType = "deal" -> SelectDealFirm(parseInt(p1))
              [] resourceType = "document" -> SelectDocumentFirm(parseInt(p1))
              [] resourceType = "workflow" -> SelectWorkflowFirm(parseInt(p1)),
            user)

NoIsoRequest ==
    [mw |-> "none", kind |-> "none", user |-> NoUser, param |-> <<>>,
     dbOk |-> TRUE, resp |-> Respond(0)]

IsoRecord(mw, kind, user, param, dbOk, resp) ==
    [mw |-> mw, kind |-> kind, user |-> user, param |-> param,
     dbOk |-> dbOk, resp |-> resp]

\* Requests are independent and the middleware keeps no state between them:
\* a behaviour follows one request, isoLast, through one middleware.
\* At most one of the two parameters is present on a route.
IsoParamPairs == {pp \in IsoParams \X IsoParams : pp[1] = <<>> \/ pp[2] = <<>>}
ParamOf(pp) == IF pp[1] # <<>> THEN pp[1] ELSE pp[2]

EnforceDealAccess ==
    \E user \in IsoUsers, pp \in IsoParamPairs, dbOk \in BOOLEAN :
        /\ isoLast = NoIsoRequest
        /\ isoLast' = IsoRecord("enforceDealAccess", "deal", user, ParamOf(pp), dbOk,
                                enforceDealAccess(user, pp[1], pp[2], dbOk))
        /\ UNCHANGED <<deals, documents, workflows, now, linkVars, jwtVars, moreVars, lateVars>>

EnforceDocumentAccess ==
    \E user \in IsoUsers, pp \in IsoParamPairs, dbOk \in BOOLEAN :
        /\ isoLast = NoIsoRequest
        /\ isoLast' = IsoRecord("enforceDocumentAccess", "document", user, ParamOf(pp),
                                dbOk, enforceDocumentAccess(user, pp[1], pp[2], dbOk))
        /\ UNCHANGED <<deals, documents, workflows, now, linkVars, jwtVars, moreVars, lateVars>>

EnforceWorkflowAccess ==
    \E user \in IsoUsers, pp \in IsoParamPairs, dbOk \in BOOLEAN :
        /\ isoLast = NoIsoRequest
        /\ isoLast' = IsoRecord("enforceWorkflowAccess", "workflow", user, ParamOf(pp),
                                dbOk, enforceWorkflowAccess(user, pp[1], pp[2], dbOk))
        /\ UNCHANGED <<deals, documents, workflows, now, linkVars, jwtVars, moreVars, lateVars>>

EnforceFirmIsolation ==
    \E rt \in ResourceTypes, user \in IsoUsers, p \in IsoParams, dbOk \in BOOLEAN :
        /\ isoLast = NoIsoRequest
        /\ isoLast' = IsoRecord("enforceFirmIsolation", rt, user, p, dbOk,
                                enforceFirmIsolation(rt, user, p, dbOk))
        /\ UNCHANGED <<deals, documents, workflows, now, linkVars, jwtVars, moreVars, lateVars>>

\* Partial functions from a subset of 1..n to the values of S.
PartialFns(n, S) == UNION {[D -> S] : D \in SUBSET (1..n)}

(***************************************************************************)
(* Session tokens (utils/jwt.ts)                                           *)
(***************************************************************************)
\* The base64 alphabet: index 0..63 to character code.
B64Char(i) ==
    IF i < 26 THEN 65 + i
    ELSE IF i < 52 THEN 97 + (i - 26)
    ELSE IF i < 62 THEN 48 + (i - 52)
    ELSE IF i = 62 THEN 43 ELSE 47

\* Character code to index, -1 for a character outside the alphabet.
B64Index(ch) ==
    IF ch >= 65 /\ ch <= 90 THEN ch - 65
    ELSE IF ch >= 97 /\ ch <= 122 THEN ch - 97 + 26
    ELSE IF ch >= 48 /\ ch <= 57 THEN ch - 48 + 52
    ELSE IF ch = 43 THEN 62
    ELSE IF ch = 47 THEN 63 ELSE -1

\* btoa: three bytes to four characters, '=' padding on the last group.
btoa(b) ==
    LET n == Len(b)
        byte(i) == IF i <= n THEN b[i] ELSE 0
    IN  [j \in 1..(4 * ((n + 2) \div 3)) |->
            LET g == (j - 1) \div 4
                pos == (j - 1) % 4
                b1 == byte(3 * g + 1)
                b2 == byte(3 * g + 2)
                b3 == byte(3 * g + 3)
            IN  IF pos = 0 THEN B64Char(b1 \div 4)
                ELSE IF pos = 1 THEN B64Char((b1 % 4) * 16 + b2 \div 16)
                ELSE IF pos = 2 THEN
                    (IF 3 * g + 2 > n THEN 61
                     ELSE B64Char((b2 % 16) * 4 + b3 \div 64))
                ELSE (IF 3 * g + 3 > n THEN 61 ELSE B64Char(b3 % 64))]

DecodeError == <<-1>>

\* Four characters to three bytes; the caller has checked the characters.
atobGroups(s) ==
    LET n == Len(s)
        pad == IF n = 0 THEN 0
               ELSE IF s[n] # 61 THEN 0 ELSE IF s[n - 1] # 61 THEN 1 ELSE 2
        idx(i) == IF s[i] = 61 THEN 0 ELSE B64Index(s[i])
    IN  [k \in 1..(3 * (n \div 4) - pad) |->
            LET g == (k - 1) \div 3
                pos == (k - 1) % 3
                a == idx(4 * g + 1)
                b == idx(4 * g + 2)
                c == idx(4 * g + 3)
                d == idx(4 * g + 4)
            IN  IF pos = 0 THEN a * 4 + b \div 16
                ELSE IF pos = 1 THEN (b % 16) * 16 + c \div 4
                ELSE (c % 4) * 64 + d]

\* atob: DecodeError (the thrown InvalidCharacterError) unless the text is
\* whole groups of alphabet characters with '=' only at the very end.
atob(s) ==
    LET n == Len(s)
        okChar(i) ==
            \/ B64Index(s[i]) >= 0
            \/ s[i] = 61 /\ (i = n \/ (i = n - 1 /\ s[n] = 61))
    IN  IF n % 4 # 0 \/ \E i \in 1..n : ~okChar(i) THEN DecodeError
        ELSE atobGroups(s)

Replace(s, from, to) == [i \in 1..Len(s) |-> IF s[i] = from THEN to ELSE s[i]]

Remove(s, ch) == SelectSeq(s, LAMBDA x : x # ch)

\* base64UrlEncode of a string: btoa, '+' to '-', '/' to '_', '=' removed.
base64UrlEncode(data) == Remove(Replace(Replace(btoa(data), 43, 45), 47, 95), 61)

RECURSIVE PadTo4(_)
PadTo4(s) == IF Len(s) % 4 = 0 THEN s ELSE PadTo4(s \o <<61>>)

\* base64UrlDecode: '-' to '+', '_' to '/', '=' added to a multiple of 4, atob.
base64UrlDecode(str) == atob(PadTo4(Replace(Replace(str, 45, 43), 95, 47)))

\* Text constants.
Quote(str) == <<34>> \o str \o <<34>>
K_user_id == <<117, 115, 101, 114, 95, 105, 100>>     \* user_id
K_firm_id == <<102, 105, 114, 109, 95, 105, 100>>     \* firm_id
K_email == <<101, 109, 97, 105, 108>>                 \* email
K_role == <<114, 111, 108, 101>>                      \* role
K_iat == <<105, 97, 116>>                             \* iat
K_exp == <<101, 120, 112>>                            \* exp
K_alg == <<97, 108, 103>>                             \* alg
K_typ == <<116, 121, 112>>                            \* typ
S_HS256 == <<72, 83, 50, 53, 54>>                     \* HS256
S_JWT == <<74, 87, 84>>                               \* JWT
RoleInvestor == <<105, 110, 118, 101, 115, 116, 111, 114>>              \* investor
RoleConsultant == <<99, 111, 110, 115, 117, 108, 116, 97, 110, 116>>    \* consultant

Member(key, valueText) == Quote(key) \o <<58>> \o valueText

\* JSON.stringify of the full payload, in the order createToken builds it.
\* The string values here hold no character that JSON escapes.
StringifyPayload(p) ==
    <<123>> \o Member(K_user_id, ToDigits(p.user_id))
    \o <<44>> \o Member(K_firm_id, Quote(p.firm_id))
    \o <<44>> \o Member(K_email, Quote(p.email))
    \o <<44>> \o Member(K_role, Quote(p.role))
    \o <<44>> \o Member(K_iat, ToDigits(p.iat))
    \o <<44>> \o Member(K_exp, ToDigits(p.exp))
    \o <<125>>

\* JSON.stringify({alg: 'HS256', typ: 'JWT'})
StringifyHeader ==
    <<123>> \o Member(K_alg, Quote(S_HS256)) \o <<44>> \o Member(K_typ, Quote(S_JWT))
    \o <<125>>

\* String.prototype.indexOf for one character: its first position, 0 when
\* there is none.
IndexOf(s, ch) ==
    LET hits == {i \in 1..Len(s) : s[i] = ch} IN
    IF hits = {} THEN 0 ELSE CHOOSE i \in hits : \A j \in hits : i <= j

RECURSIVE Split(_, _)
\* String.prototype.split on a one-character separator.
Split(s, sep) ==
    LET k == IndexOf(s, sep) IN
    IF k = 0 THEN <<s>>
    ELSE <<SubSeq(s, 1, k - 1)>> \o Split(SubSeq(s, k + 1, Len(s)), sep)

\* The text of member `key` of a flat JSON object: what follows "key": up to
\* the next ',' or the closing '}'.
MemberText(json, key) ==
    LET members == Split(SubSeq(json, 2, Len(json) - 1), 44)
        hit == {i \in 1..Len(members) :
                   LET kv == Split(members[i], 58) IN
                   Len(kv) = 2 /\ kv[1] = Quote(key)}
    IN  IF hit = {} THEN <<>>
        ELSE Split(members[CHOOSE i \in hit : TRUE], 58)[2]

Unquote(text) == IF Len(text) >= 2 THEN SubSeq(text, 2, Len(text) - 1) ELSE <<>>

\* JSON.parse of a payload as stringified above.
ParsePayload(json) ==
    [user_id |-> DigitsValue(MemberText(json, K_user_id)),
     firm_id |-> Unquote(MemberText(json, K_firm_id)),
     email |-> Unquote(MemberText(json, K_email)),
     role |-> Unquote(MemberText(json, K_role)),
     iat |-> DigitsValue(MemberText(json, K_iat)),
     exp |-> DigitsValue(MemberText(json, K_exp))]

JWT_SECRET == <<115, 49>>              \* the server's secret
OtherSecret == <<122, 57>>             \* a secret somebody else holds

\* HMAC-SHA256 and its base64url text, modelled as a collision-free keyed
\* function: the tag of (secret, data) is that pair itself, written in
\* negative codes so that it is no character text and holds no '.'.
sign(data, secret) == [i \in 1..(Len(secret) + 1 + Len(data)) |->
    IF i <= Len(secret) THEN 0 - secret[i]
    ELSE IF i = Len(secret) + 1 THEN 0 - 1000
    ELSE 0 - data[i - Len(secret) - 1]]

\* createToken with iat and exp counted from Date.now() in milliseconds.
createTokenMillis(payload, secret, expiresInMinutes, nowMs) ==
    LET iat == nowMs
        exp == iat + expiresInMinutes * 60
        fullPayload == [user_id |-> payload.user_id, firm_id |-> payload.firm_id,
                        email |-> payload.email, role |-> payload.role,
                        iat |-> iat, exp |-> exp]
        encodedHeader == base64UrlEncode(StringifyHeader)
        encodedPayload == base64UrlEncode(StringifyPayload(fullPayload))
        data == encodedHeader \o <<46>> \o encodedPayload
    IN  data \o <<46>> \o sign(data, secret)

\* createToken(payload, secret, expiresInMinutes) at Date.now() = nowMs.
createToken(payload, secret, expiresInMinutes, nowMs) ==
    LET iat == nowMs \div 1000
        exp == iat + expiresInMinutes * 60
        fullPayload == [user_id |-> payload.user_id, firm_id |-> payload.firm_id,
                        email |-> payload.email, role |-> payload.role,
                        iat |-> iat, exp |-> exp]
        encodedHeader == base64UrlEncode(StringifyHeader)
        encodedPayload == base64UrlEncode(StringifyPayload(fullPayload))
        data == encodedHeader \o <<46>> \o encodedPayload
    IN  data \o <<46>> \o sign(data, secret)

Thrown(message) == [ok |-> FALSE, error |-> message,
                    payload |-> [user_id |-> 0, firm_id |-> <<>>, email |-> <<>>,
                                 role |-> <<>>, iat |-> 0, exp |-> 0]]
Returned(payload) == [ok |-> TRUE, error |-> "", payload |-> payload]

\* verifyToken without the comparison of signatures.
verifyTokenUnsigned(token, secret, nowMs) ==
    LET parts == Split(token, 46) IN
    IF Len(parts) # 3 THEN Thrown("Invalid token format")
    ELSE
        LET decoded == base64UrlDecode(parts[2])
            payload == ParsePayload(decoded)
            nowS == nowMs \div 1000
        IN  IF decoded = DecodeError THEN Thrown("Invalid character")
            ELSE IF payload.exp # 0 /\ payload.exp < nowS THEN Thrown("Token expired")
            ELSE Returned(payload)

\* verifyToken that rejects from the second of exp on.
verifyTokenExpiredAtExp(token, secret, nowMs) ==
    LET parts == Split(token, 46) IN
    IF Len(parts) # 3 THEN Thrown("Invalid token format")
    ELSE
        LET data == parts[1] \o <<46>> \o parts[2]
            decoded == base64UrlDecode(parts[2])
            payload == ParsePayload(decoded)
            nowS == nowMs \div 1000
        IN  IF parts[3] # sign(data, secret) THEN Thrown("Invalid signature")
            ELSE IF decoded = DecodeError THEN Thrown("Invalid character")
            ELSE IF payload.exp # 0 /\ payload.exp <= nowS THEN Thrown("Token expired")
            ELSE Returned(payload)

\* verifyToken that looks at exp before it compares the signatures.
verifyTokenExpiryFirst(token, secret, nowMs) ==
    LET parts == Split(token, 46) IN
    IF Len(parts) # 3 THEN Thrown("Invalid token format")
    ELSE
        LET data == parts[1] \o <<46>> \o parts[2]
            decoded == base64UrlDecode(parts[2])
            payload == ParsePayload(decoded)
            nowS == nowMs \div 1000
        IN  IF decoded # DecodeError /\ payload.exp # 0 /\ payload.exp < nowS
            THEN Thrown("Token expired")
            ELSE IF parts[3] # sign(data, secret) THEN Thrown("Invalid signature")
            ELSE IF decoded = DecodeError THEN Thrown("Invalid character")
            ELSE Returned(payload)

\* verifyToken(token, secret) at Date.now() = nowMs: the payload, or the
\* message of the Error it throws.  (payload.exp && ...: an exp of 0 is never
\* expired.)
verifyToken(token, secret, nowMs) ==
    LET parts == Split(token, 46) IN
    IF Len(parts) # 3 THEN Thrown("Invalid token format")
    ELSE
        LET data == parts[1] \o <<46>> \o parts[2]
            decoded == base64UrlDecode(parts[2])
            payload == ParsePayload(decoded)
            nowS == nowMs \div 1000
        IN  IF parts[3] # sign(data, secret) THEN Thrown("Invalid signature")
            ELSE IF decoded = DecodeError THEN Thrown("Invalid character")
            ELSE IF payload.exp # 0 /\ payload.exp < nowS THEN Thrown("Token expired")
            ELSE Returned(payload)

(***************************************************************************)
(* Magic links (routes/auth.ts, utils/tokens.ts, schemas/auth.ts,          *)
(* middleware/authRateLimit.ts)                                            *)
(***************************************************************************)
EmailA == <<97, 64, 120, 46, 105, 111>>          \* a@x.io
EmailAUpper == <<65, 64, 120, 46, 105, 111>>     \* A@x.io
EmailB == <<98, 64, 121, 46, 105, 111>>          \* b@y.io
NotAnEmail == <<97, 120, 46, 105, 111>>          \* ax.io
RawEmails == {EmailA, EmailAUpper, EmailB, NotAnEmail}

\* String.prototype.toLowerCase on ASCII text.
toLowerCase(str) ==
    [i \in 1..Len(str) |-> IF str[i] >= 65 /\ str[i] <= 90 THEN str[i] + 32 ELSE str[i]]

\* z.string().email(): one '@', a local part, and a domain with a dot that is
\* neither its first nor its last character.
IsEmail(str) ==
    LET parts == Split(str, 64) IN
    /\ Len(parts) = 2
    /\ parts[1] # <<>>
    /\ LET k == IndexOf(parts[2], 46) IN k > 1 /\ k < Len(parts[2])

MIN_TOKEN_LENGTH == 40
TOKEN_LENGTH == 43
MaxTokens == 2

\* generateToken: 32 random bytes as 43 base64url characters.  The pool holds
\* the values the random source produces here; they differ in the last one.
Tok(n) == [k \in 1..TOKEN_LENGTH |-> IF k = TOKEN_LENGTH THEN 65 + n ELSE 65]
TokenPool == {Tok(n) : n \in 1..MaxTokens}
JunkToken == Tok(0)                \* well-formed, never generated
ShortToken == <<97, 98, 99>>       \* shorter than the schema allows

\* hashToken: SHA-256 in hex, modelled as a collision-free function: the
\* digest of a text is that text behind a marker that no text holds.
hashToken(token) == <<0 - 256>> \o token

Null == 0 - 1
LINK_EXPIRY_MINUTES == 15
MAX_REQUESTS == 3
WINDOW_MINUTES == 60
ACCESS_TOKEN_MINUTES == 60
REFRESH_TOKEN_MINUTES == 10080

Epoch == 5 * 1000                \* Date.now() when the first request arrives
\* The instants the clock takes: issue time, 14 min 59 s later, exactly 15
\* min later, and 15 min 1 s later.
LinkTimes == {Epoch, Epoch + 899000, Epoch + 900000, Epoch + 901000}

Issuers == {1, 2}
Verifiers == {1, 2}

NoToken == <<>>
\* A handler in flight holds its locals; once it has answered, the record keeps
\* the request and the response only.
NoHeaders == <<>>                  \* no header besides those of every response
NoBody == [success |-> FALSE]
IssuerIdle ==
    [pc |-> "idle", email |-> <<>>, token |-> NoToken, expiresAt |-> Null,
     status |-> 0, headers |-> NoHeaders, body |-> NoBody]

NoRow == [id |-> 0, email |-> <<>>, token_hash |-> <<>>, expires_at |-> Null,
          used_at |-> Null]
NoUserRow == [id |-> 0, email |-> <<>>, firm_id |-> <<>>, role |-> <<>>]
VerifierIdle ==
    [pc |-> "idle", email |-> <<>>, token |-> NoToken, storedToken |-> NoRow,
     status |-> 0, error |-> "", accessToken |-> NoToken, refreshToken |-> NoToken,
     user |-> NoUserRow]

MSG_INVALID == "Invalid login link"
MSG_EXPIRED == "This link has expired. Please request a new one."
MSG_USED == "This link has already been used. Please request a new one."

\* ----- authRateLimit: the in-process limiter in front of request-magic-link.
\* The map after the call, and whether the call was rejected with 429.
authRateLimitMapAfter(map, email, nowMs) ==
    IF email \in DOMAIN map THEN
        IF nowMs > map[email].resetAt THEN
            [map EXCEPT ![email] = [count |-> 1,
                                    resetAt |-> nowMs + WINDOW_MINUTES * 60 * 1000]]
        ELSE IF map[email].count >= MAX_REQUESTS THEN map
        ELSE [map EXCEPT ![email].count = @ + 1]
    ELSE
        [e \in DOMAIN map \cup {email} |->
            IF e = email
            THEN [count |-> 1, resetAt |-> nowMs + WINDOW_MINUTES * 60 * 1000]
            ELSE map[e]]

authRateLimitRejects(map, email, nowMs) ==
    /\ email \in DOMAIN map
    /\ ~(nowMs > map[email].resetAt)
    /\ map[email].count >= MAX_REQUESTS

\* The 429 of authRateLimit: c.json({error, message}, 429), with
\* minutesRemaining = Math.ceil((resetAt - now) / (60 * 1000)).
authRateLimitResponse(map, email, nowMs) ==
    LET minutesRemaining == (map[email].resetAt - nowMs + 60 * 1000 - 1)
                                \div (60 * 1000)
    IN  [status |-> 429, headers |-> NoHeaders,
         body |-> [error |-> "Too many requests",
                   message |-> <<"Please try again in ", minutesRemaining,
                                 " minute",
                                 IF minutesRemaining > 1 THEN "s" ELSE "">>]]

\* ----- POST /auth/request-magic-link
\* The tokens somebody still holds or the store still knows.
KnownTokens ==
    {t \in TokenPool :
        \/ \E r \in magicLinkTokens : r.token_hash = hashToken(t)
        \/ \E m \in mailbox : m[2] = t
        \/ \E i \in Issuers : issuer[i].token = t
        \/ \E v \in Verifiers : verifier[v].token = t
        \/ \E c \in consumed : c[2] = t}

\* crypto.getRandomValues never repeats a value: the next unused pool token.
generateToken ==
    CHOOSE t \in TokenPool \ KnownTokens :
        \A u \in TokenPool \ KnownTokens : t[TOKEN_LENGTH] <= u[TOKEN_LENGTH]

\* The handler answers c.json(body, status).
IssuerDone(i, status) ==
    issuer' = [issuer EXCEPT ![i] =
                  [IssuerIdle EXCEPT !.pc = "done", !.email = issuer[i].email,
                                     !.status = status,
                                     !.body = [success |-> status = 200,
                                               message |-> "Check your email for your login link"]]]

\* A catch block that reports the failure.
IssuerCatchReports(i) == IssuerDone(i, 500)

\* catch (error): console.error, then the same c.json as after the send.
IssuerCatch(i) == IssuerDone(i, 200)

\* authRateLimit, then zValidator: 429, 400, or on to the handler.
RequestStart(i, raws, reuse) ==
    \E raw \in raws :
        /\ issuer[i].pc = "idle" \/ (reuse /\ issuer[i].pc = "done")
        /\ LET key == toLowerCase(raw) IN
           /\ rateLimitMap' = authRateLimitMapAfter(rateLimitMap, key, now)
           /\ IF authRateLimitRejects(rateLimitMap, key, now) THEN
                  issuer' = [issuer EXCEPT ![i] =
                      LET resp == authRateLimitResponse(rateLimitMap, key, now) IN
                      [IssuerIdle EXCEPT !.pc = "done", !.email = key,
                                         !.status = resp.status,
                                         !.headers = resp.headers,
                                         !.body = resp.body]]
              ELSE IF ~IsEmail(raw) THEN
                  issuer' = [issuer EXCEPT ![i] =
                                [IssuerIdle EXCEPT !.pc = "done", !.email = key,
                                                   !.status = 400]]
              ELSE
                  issuer' = [issuer EXCEPT ![i] =
                                [IssuerIdle EXCEPT !.pc = "delete", !.email = key]]
        /\ UNCHANGED <<magicLinkTokens, users, nextRowId, mailbox, verifier, consumed>>
        /\ UNCHANGED <<isoVars, now, jwtVars, moreVars, lateVars>>

\* The handler without the delete of the email's earlier rows.
RequestDeleteKeepsRows(i, dbs) ==
    /\ issuer[i].pc = "delete"
    /\ TokenPool \ KnownTokens # {}
    /\ \E dbOk \in dbs :
        IF dbOk THEN
            /\ issuer' = [issuer EXCEPT ![i].pc = "insert",
                                        ![i].token = generateToken,
                                        ![i].expiresAt =
                                            now + LINK_EXPIRY_MINUTES * 60 * 1000]
        ELSE
            /\ IssuerCatch(i)
    /\ UNCHANGED <<magicLinkTokens, users, nextRowId, rateLimitMap, mailbox, verifier,
                   consumed>>
    /\ UNCHANGED <<isoVars, now, jwtVars, moreVars, lateVars>>

\* database.delete(...).where(email = email); then generateToken, hashToken and
\* expiresAt = Date.now() + 15 minutes.  A failed delete lands in the catch.
RequestDelete(i, dbs) ==
    /\ issuer[i].pc = "delete"
    /\ TokenPool \ KnownTokens # {}
    /\ \E dbOk \in dbs :
        IF dbOk THEN
            /\ magicLinkTokens' = {r \in magicLinkTokens : r.email # issuer[i].email}
            /\ issuer' = [issuer EXCEPT ![i].pc = "insert",
                                        ![i].token = generateToken,
                                        ![i].expiresAt =
                                            now + LINK_EXPIRY_MINUTES * 60 * 1000]
        ELSE
            /\ IssuerCatch(i)
            /\ UNCHANGED magicLinkTokens
    /\ UNCHANGED <<users, nextRowId, rateLimitMap, mailbox, verifier, consumed>>
    /\ UNCHANGED <<isoVars, now, jwtVars, moreVars, lateVars>>

\* A handler that looks the address up first and stores a link only for an
\* address that has a users row, answering the same either way.
RequestInsertKnownOnly(i, dbs) ==
    /\ issuer[i].pc = "insert"
    /\ \E dbOk \in dbs :
        IF dbOk /\ \E u \in users : u.email = issuer[i].email THEN
            /\ magicLinkTokens' = magicLinkTokens \cup
                   {[id |-> nextRowId, email |-> issuer[i].email,
                     token_hash |-> hashToken(issuer[i].token),
                     expires_at |-> issuer[i].expiresAt, used_at |-> Null]}
            /\ nextRowId' = nextRowId + 1
            /\ issuer' = [issuer EXCEPT ![i].pc = "send"]
        ELSE
            /\ IssuerCatch(i)
            /\ UNCHANGED <<magicLinkTokens, nextRowId>>
    /\ UNCHANGED <<users, rateLimitMap, mailbox, verifier, consumed>>
    /\ UNCHANGED <<isoVars, now, jwtVars, moreVars, lateVars>>

\* database.insert(magicLinkTokens).values({email, token_hash, expires_at})
RequestInsert(i, dbs) ==
    /\ issuer[i].pc = "insert"
    /\ \E dbOk \in dbs :
        IF dbOk THEN
            /\ magicLinkTokens' = magicLinkTokens \cup
                   {[id |-> nextRowId, email |-> issuer[i].email,
                     token_hash |-> hashToken(issuer[i].token),
                     expires_at |-> issuer[i].expiresAt, used_at |-> Null]}
            /\ nextRowId' = nextRowId + 1
            /\ issuer' = [issuer EXCEPT ![i].pc = "send"]
        ELSE
            /\ IssuerCatch(i)
            /\ UNCHANGED <<magicLinkTokens, nextRowId>>
    /\ UNCHANGED <<users, rateLimitMap, mailbox, verifier, consumed>>
    /\ UNCHANGED <<isoVars, now, jwtVars, moreVars, lateVars>>

\* sendMagicLinkEmail, then the success response; a send that throws lands in
\* the catch.
RequestSend(i, sends) ==
    /\ issuer[i].pc = "send"
    /\ \E sent \in sends :
        IF sent THEN
            /\ mailbox' = mailbox \cup {<<issuer[i].email, issuer[i].token>>}
            /\ IssuerDone(i, 200)
        ELSE
            /\ UNCHANGED mailbox
            /\ IssuerCatch(i)
    /\ UNCHANGED <<magicLinkTokens, users, nextRowId, rateLimitMap, verifier, consumed>>
    /\ UNCHANGED <<isoVars, now, jwtVars, moreVars, lateVars>>

\* ----- GET /auth/verify-magic-link
\* What a caller can present: a token somebody was mailed, a well-formed
\* token nobody was mailed, a text too short to be a token.
MailedTokens == {m[2] : m \in mailbox}
OtherTokens == {JunkToken, ShortToken}

VerifierFail(v, status, error) ==
    verifier' = [verifier EXCEPT ![v] =
                    [VerifierIdle EXCEPT !.pc = "done", !.email = verifier[v].email,
                                         !.token = verifier[v].token,
                                         !.status = status, !.error = error]]

\* The claims verify-magic-link signs for a user row (user.firm_id || '').
ClaimsOf(user) ==
    [user_id |-> user.id, firm_id |-> user.firm_id, email |-> user.email,
     role |-> user.role]

\* The 200 response: the access token (1 hour) and the refresh token (7 days).
VerifierSucceed(v, user) ==
    /\ verifier' = [verifier EXCEPT ![v] =
            [VerifierIdle EXCEPT
                !.pc = "done", !.email = verifier[v].email,
                !.token = verifier[v].token, !.status = 200, !.user = user,
                !.accessToken =
                    createToken(ClaimsOf(user), JWT_SECRET, ACCESS_TOKEN_MINUTES, now),
                !.refreshToken =
                    createToken(ClaimsOf(user), JWT_SECRET, REFRESH_TOKEN_MINUTES, now)]]
    /\ consumed' = consumed \cup {<<verifier[v].email, verifier[v].token>>}

\* SELECT ... WHERE email = $1 AND token_hash = $2 LIMIT 1
SelectToken(email, tokenHash) ==
    {r \in magicLinkTokens : r.email = email /\ r.token_hash = tokenHash}

\* The checks with the expiry comparison off by one: expired at expires_at.
VerifyStartExpiredAtExpiry(v, raws, others, dbs, reuse) ==
    \E raw \in raws, token \in MailedTokens \cup others, dbOk \in dbs :
        /\ verifier[v].pc = "idle" \/ (reuse /\ verifier[v].pc = "done")
        /\ LET email == toLowerCase(raw)
               found == SelectToken(email, hashToken(token))
               fresh == [VerifierIdle EXCEPT !.email = email, !.token = token]
               fail(status, error) ==
                   [fresh EXCEPT !.pc = "done", !.status = status, !.error = error]
           IN  IF Len(token) < MIN_TOKEN_LENGTH \/ ~IsEmail(raw) THEN
                   verifier' = [verifier EXCEPT ![v] = fail(400, "Invalid input")]
               ELSE IF ~dbOk \/ found = {} THEN
                   verifier' = [verifier EXCEPT ![v] = fail(401, MSG_INVALID)]
               ELSE \E storedToken \in found :
                   verifier' = [verifier EXCEPT ![v] =
                       IF now >= storedToken.expires_at THEN fail(401, MSG_EXPIRED)
                       ELSE IF storedToken.used_at # Null THEN fail(401, MSG_USED)
                       ELSE [fresh EXCEPT !.pc = "mark", !.storedToken = storedToken]]
        /\ UNCHANGED <<magicLinkTokens, users, nextRowId, rateLimitMap, mailbox,
                       issuer, consumed>>
        /\ UNCHANGED <<isoVars, now, jwtVars, moreVars, lateVars>>

\* zValidator, hashToken, the lookup and the three checks that follow it.
VerifyStart(v, raws, others, dbs, reuse) ==
    \E raw \in raws, token \in MailedTokens \cup others, dbOk \in dbs :
        /\ verifier[v].pc = "idle" \/ (reuse /\ verifier[v].pc = "done")
        /\ LET email == toLowerCase(raw)
               found == SelectToken(email, hashToken(token))
               fresh == [VerifierIdle EXCEPT !.email = email, !.token = token]
               fail(status, error) ==
                   [fresh EXCEPT !.pc = "done", !.status = status, !.error = error]
           IN  IF Len(token) < MIN_TOKEN_LENGTH \/ ~IsEmail(raw) THEN
                   verifier' = [verifier EXCEPT ![v] = fail(400, "Invalid input")]
               ELSE IF ~dbOk \/ found = {} THEN
                   verifier' = [verifier EXCEPT ![v] = fail(401, MSG_INVALID)]
               ELSE \E storedToken \in found :
                   verifier' = [verifier EXCEPT ![v] =
                       IF now > storedToken.expires_at THEN fail(401, MSG_EXPIRED)
                       ELSE IF storedToken.used_at # Null THEN fail(401, MSG_USED)
                       ELSE [fresh EXCEPT !.pc = "mark", !.storedToken = storedToken]]
        /\ UNCHANGED <<magicLinkTokens, users, nextRowId, rateLimitMap, mailbox,
                       issuer, consumed>>
        /\ UNCHANGED <<isoVars, now, jwtVars, moreVars, lateVars>>

\* The handler without the update of used_at.
VerifyMarkNoUpdate(v, dbs) ==
    /\ verifier[v].pc = "mark"
    /\ \E dbOk \in dbs :
        IF dbOk THEN verifier' = [verifier EXCEPT ![v].pc = "user"]
        ELSE VerifierFail(v, 401, MSG_INVALID)
    /\ UNCHANGED <<magicLinkTokens, users, nextRowId, rateLimitMap, mailbox, issuer,
                   consumed>>
    /\ UNCHANGED <<isoVars, now, jwtVars, moreVars, lateVars>>

\* UPDATE magic_link_tokens SET used_at = now WHERE id = storedToken.id
VerifyMark(v, dbs) ==
    /\ verifier[v].pc = "mark"
    /\ \E dbOk \in dbs :
        IF dbOk THEN
            /\ magicLinkTokens' =
                   {IF r.id = verifier[v].storedToken.id
                    THEN [r EXCEPT !.used_at = now] ELSE r : r \in magicLinkTokens}
            /\ verifier' = [verifier EXCEPT ![v].pc = "user"]
        ELSE
            /\ VerifierFail(v, 401, MSG_INVALID)
            /\ UNCHANGED magicLinkTokens
    /\ UNCHANGED <<users, nextRowId, rateLimitMap, mailbox, issuer, consumed>>
    /\ UNCHANGED <<isoVars, now, jwtVars, moreVars, lateVars>>

\* SELECT ... FROM users WHERE email = $1 LIMIT 1; with a row, the tokens are
\* created and returned.
VerifyUser(v, dbs) ==
    /\ verifier[v].pc = "user"
    /\ \E dbOk \in dbs :
        LET existingUsers == {u \in users : u.email = verifier[v].email} IN
        IF ~dbOk THEN
            VerifierFail(v, 401, MSG_INVALID) /\ UNCHANGED consumed
        ELSE IF existingUsers = {} THEN
            verifier' = [verifier EXCEPT ![v].pc = "insertUser"] /\ UNCHANGED consumed
        ELSE \E user \in existingUsers : VerifierSucceed(v, user)
    /\ UNCHANGED <<magicLinkTokens, users, nextRowId, rateLimitMap, mailbox, issuer>>
    /\ UNCHANGED <<isoVars, now, jwtVars, moreVars, lateVars>>

NextUserId ==
    IF users = {} THEN 1
    ELSE 1 + (CHOOSE n \in {u.id : u \in users} : \A u \in users : u.id <= n)

\* A first verification that signs the tokens for the new user without
\* storing its row.
VerifyInsertUserUnstored(v, dbs) ==
    /\ verifier[v].pc = "insertUser"
    /\ \E dbOk \in dbs :
        LET user == [id |-> NextUserId, email |-> verifier[v].email,
                     firm_id |-> NoFirm, role |-> RoleConsultant] IN
        IF ~dbOk \/ \E u \in users : u.email = verifier[v].email THEN
            /\ VerifierFail(v, 401, MSG_INVALID)
            /\ UNCHANGED <<users, consumed>>
        ELSE
            /\ UNCHANGED users
            /\ VerifierSucceed(v, user)
    /\ UNCHANGED <<magicLinkTokens, nextRowId, rateLimitMap, mailbox, issuer>>
    /\ UNCHANGED <<isoVars, now, jwtVars, moreVars, lateVars>>

\* INSERT INTO users (email, full_name, role) ... RETURNING *: email is unique,
\* so a second insert for the email throws and the catch answers 401.
VerifyInsertUser(v, dbs) ==
    /\ verifier[v].pc = "insertUser"
    /\ \E dbOk \in dbs :
        LET user == [id |-> NextUserId, email |-> verifier[v].email,
                     firm_id |-> NoFirm, role |-> RoleConsultant] IN
        IF ~dbOk \/ \E u \in users : u.email = verifier[v].email THEN
            /\ VerifierFail(v, 401, MSG_INVALID)
            /\ UNCHANGED <<users, consumed>>
        ELSE
            /\ users' = users \cup {user}
            /\ VerifierSucceed(v, user)
    /\ UNCHANGED <<magicLinkTokens, nextRowId, rateLimitMap, mailbox, issuer>>
    /\ UNCHANGED <<isoVars, now, jwtVars, moreVars, lateVars>>

LinkTick ==
    /\ \E t \in LinkTimes : t > now /\ now' = t
    /\ UNCHANGED <<isoVars, linkVars, jwtVars, moreVars, lateVars>>

(***************************************************************************)
(* Session token calls and the authenticate middleware                     *)
(* (utils/jwt.ts, middleware/auth.ts)                                      *)
(***************************************************************************)
MaxIssued == 1

\* The claims createToken is asked to sign.
JwtClaims ==
    {[user_id |-> 1, firm_id |-> FirmA, email |-> EmailA, role |-> RoleInvestor],
     [user_id |-> 12, firm_id |-> NoFirm, email |-> EmailB, role |-> RoleConsultant]}
JwtLifetimes == {ACCESS_TOKEN_MINUTES, REFRESH_TOKEN_MINUTES}

\* The instants the clock takes: issue time, the last millisecond of the
\* second an access token issued at Epoch expires in, the second after it,
\* and 61 minutes after issue.
JwtTimes == {Epoch, Epoch + 3600999, Epoch + 3601000, Epoch + 3660000}

JoinDots(parts) ==
    IF Len(parts) = 0 THEN <<>>
    ELSE IF Len(parts) = 1 THEN parts[1]
    ELSE IF Len(parts) = 2 THEN parts[1] \o <<46>> \o parts[2]
    ELSE parts[1] \o <<46>> \o parts[2] \o <<46>> \o parts[3]

\* What a caller can make of a token they hold.  Without JWT_SECRET: the
\* payload segment rewritten for another firm, a later expiry or another
\* user, or its last character changed, each under the old signature, under
\* a signature made with another secret, or under none; the token signed
\* again by somebody else; and texts that are not three segments.
PayloadEdits == {"firm_id", "exp", "user_id", "lastChar"}
SignatureEdits == {"kept", "other", "none"}
Shapes == {"genuine", "resigned", "twoSegments", "fourSegments", "oneSegment"}

NextChar(ch) == B64Char((B64Index(ch) + 1) % 64)

AlteredSegment(seg, edit) ==
    LET p == ParsePayload(base64UrlDecode(seg)) IN
    IF edit = "firm_id" THEN base64UrlEncode(StringifyPayload([p EXCEPT !.firm_id = FirmB]))
    ELSE IF edit = "exp" THEN
        base64UrlEncode(StringifyPayload([p EXCEPT !.exp = p.exp + 86400]))
    ELSE IF edit = "user_id" THEN
        base64UrlEncode(StringifyPayload([p EXCEPT !.user_id = p.user_id + 1]))
    ELSE [seg EXCEPT ![Len(seg)] = NextChar(seg[Len(seg)])]

Tampered(token, edit, sigEdit) ==
    LET parts == Split(token, 46)
        seg == AlteredSegment(parts[2], edit)
    IN  JoinDots(<<parts[1], seg,
                   IF sigEdit = "kept" THEN parts[3]
                   ELSE IF sigEdit = "other"
                        THEN sign(parts[1] \o <<46>> \o seg, OtherSecret)
                   ELSE <<>> >>)

Shaped(token, shape) ==
    LET parts == Split(token, 46) IN
    IF shape = "genuine" THEN token
    ELSE IF shape = "resigned" THEN
        JoinDots(<<parts[1], parts[2],
                   sign(parts[1] \o <<46>> \o parts[2], OtherSecret)>>)
    ELSE IF shape = "twoSegments" THEN JoinDots(<<parts[1], parts[2]>>)
    ELSE IF shape = "fourSegments" THEN token \o <<46, 120>>
    ELSE parts[2]

\* The ways to derive a text from a token, and the text each gives.
Derivations ==
    {<<"shape", sh, "">> : sh \in Shapes}
    \cup {<<"tamper", e, g>> : e \in PayloadEdits, g \in SignatureEdits}

Derived(token, d) ==
    IF d[1] = "shape" THEN Shaped(token, d[2]) ELSE Tampered(token, d[2], d[3])

BEARER == <<66, 101, 97, 114, 101, 114, 32>>       \* 'Bearer '
StartsWith(str, prefix) ==
    Len(str) >= Len(prefix) /\ SubSeq(str, 1, Len(prefix)) = prefix

\* String.prototype.replace(prefix, '') on a text that starts with prefix.
StripPrefix(str, prefix) == SubSeq(str, Len(prefix) + 1, Len(str))

\* The Authorization headers a request can carry for a token: the Bearer
\* scheme, the scheme in lower case, without its blank, another scheme, the
\* bare token, and no header at all.
Schemes == {"Bearer ", "bearer ", "Bearer", "Basic ", "", "absent"}
NoHeader == <<>>
HeaderFor(token, scheme) ==
    IF scheme = "Bearer " THEN BEARER \o token
    ELSE IF scheme = "bearer " THEN <<98, 101, 97, 114, 101, 114, 32>> \o token
    ELSE IF scheme = "Bearer" THEN <<66, 101, 97, 114, 101, 114>> \o token
    ELSE IF scheme = "Basic " THEN <<66, 97, 115, 105, 99, 32>> \o token
    ELSE IF scheme = "" THEN token
    ELSE NoHeader

NoClaims == [user_id |-> 0, firm_id |-> <<>>, email |-> <<>>, role |-> <<>>]

\* authenticate that goes on to next() whatever verifyToken says.
authenticateUnverified(authHeader, nowMs) ==
    IF authHeader = NoHeader \/ ~StartsWith(authHeader, BEARER) THEN
        [status |-> 401, handlerRan |-> FALSE, user |-> NoClaims,
         message |-> "Missing or invalid authorization header"]
    ELSE
        LET token == StripPrefix(authHeader, BEARER)
            r == verifyToken(token, JWT_SECRET, nowMs)
        IN  [status |-> 200, handlerRan |-> TRUE,
             user |-> [user_id |-> r.payload.user_id, firm_id |-> r.payload.firm_id,
                       email |-> r.payload.email, role |-> r.payload.role],
             message |-> ""]

\* authenticate(c, next) at Date.now() = nowMs: 401 without a Bearer header or
\* when verifyToken throws, else the user context is set and next() runs.
authenticate(authHeader, nowMs) ==
    IF authHeader = NoHeader \/ ~StartsWith(authHeader, BEARER) THEN
        [status |-> 401, handlerRan |-> FALSE, user |-> NoClaims,
         message |-> "Missing or invalid authorization header"]
    ELSE
        LET token == StripPrefix(authHeader, BEARER)
            r == verifyToken(token, JWT_SECRET, nowMs)
        IN  IF r.ok THEN
                [status |-> 200, handlerRan |-> TRUE,
                 user |-> [user_id |-> r.payload.user_id, firm_id |-> r.payload.firm_id,
                           email |-> r.payload.email, role |-> r.payload.role],
                 message |-> ""]
            ELSE
                [status |-> 401, handlerRan |-> FALSE, user |-> NoClaims,
                 message |-> r.error]

NoDerivation == <<"none", "", "">>
NoVerify == [token |-> NoToken, source |-> NoToken, how |-> NoDerivation,
             secret |-> <<>>, result |-> Thrown("")]
NoAuth == [header |-> NoHeader, source |-> NoToken, how |-> NoDerivation,
           scheme |-> "none",
           resp |-> [status |-> 0, handlerRan |-> FALSE, user |-> NoClaims,
                     message |-> ""]]

\* verifyToken and authenticate change no state, so calls do not affect one
\* another: jwtLast and authLast describe the one call followed at the
\* present instant, and the clock moving on (or a new token) clears them.
\* Each records the token the caller started from and what they made of it.
CreateToken(secrets) ==
    \E claims \in JwtClaims, minutes \in JwtLifetimes, secret \in secrets :
        /\ Cardinality(jwtIssued) < MaxIssued
        /\ jwtIssued' = jwtIssued \cup
               {[token |-> createToken(claims, secret, minutes, now),
                 claims |-> claims, minutes |-> minutes, secret |-> secret,
                 at |-> now]}
        /\ jwtLast' = NoVerify
        /\ authLast' = NoAuth
        /\ UNCHANGED <<moreVars, isoVars, now, linkVars, lateVars>>

VerifyToken(secrets) ==
    \E j \in jwtIssued, d \in Derivations, secret \in secrets :
        /\ jwtLast = NoVerify
        /\ LET token == Derived(j.token, d) IN
           jwtLast' = [token |-> token, source |-> j.token, how |-> d,
                       secret |-> secret,
                       result |-> verifyToken(token, secret, now)]
        /\ authLast' = NoAuth
        /\ UNCHANGED <<moreVars, isoVars, now, linkVars, jwtIssued, lateVars>>

\* The middleware verifies with c.env.JWT_SECRET.
Authenticate ==
    \E j \in jwtIssued, d \in Derivations, scheme \in Schemes :
        /\ authLast = NoAuth
        /\ LET header == HeaderFor(Derived(j.token, d), scheme) IN
           authLast' = [header |-> header, source |-> j.token, how |-> d,
                        scheme |-> scheme, resp |-> authenticate(header, now)]
        /\ jwtLast' = NoVerify
        /\ UNCHANGED <<moreVars, isoVars, now, linkVars, jwtIssued, lateVars>>

JwtTick ==
    /\ \E t \in JwtTimes : t > now /\ now' = t
    /\ jwtLast' = NoVerify
    /\ authLast' = NoAuth
    /\ UNCHANGED <<moreVars, isoVars, linkVars, jwtIssued, lateVars>>

(***************************************************************************)
(* rateLimit over the SESSIONS KV namespace (middleware/rateLimit.ts)      *)
(***************************************************************************)
MaxCalls == 5

T_ratelimit == <<114, 97, 116, 101, 108, 105, 109, 105, 116>>     \* 'ratelimit'
T_user == <<117, 115, 101, 114, 58>>                              \* 'user:'
T_ip == <<105, 112, 58>>                                          \* 'ip:'
T_unknown == <<117, 110, 107, 110, 111, 119, 110>>                \* 'unknown'
NoPrefix == <<>>                                  \* config.keyPrefix undefined

\* The limit classes; none of them sets keyPrefix.
RATE_LIMITS ==
    [DEFAULT  |-> [limit |-> 100, windowSeconds |-> 60, keyPrefix |-> NoPrefix],
     AUTH     |-> [limit |-> 5, windowSeconds |-> 900, keyPrefix |-> NoPrefix],
     UPLOAD   |-> [limit |-> 10, windowSeconds |-> 3600, keyPrefix |-> NoPrefix],
     WORKFLOW |-> [limit |-> 20, windowSeconds |-> 3600, keyPrefix |-> NoPrefix],
     DOWNLOAD |-> [limit |-> 50, windowSeconds |-> 600, keyPrefix |-> NoPrefix]]

\* rateLimit(config) takes any configuration; HOURLY3 is three calls an hour.
LimitConfigs ==
    [c \in DOMAIN RATE_LIMITS \cup {"HOURLY3"} |->
        IF c = "HOURLY3"
        THEN [limit |-> 3, windowSeconds |-> 3600, keyPrefix |-> NoPrefix]
        ELSE RATE_LIMITS[c]]

\* A caller as the middleware sees it: the user context (user_id 0 when
\* authenticate set none) and the two address headers ('' when absent).
IpA == <<57, 46, 57, 46, 57, 46, 57>>                             \* '9.9.9.9'
SignedIn(id) == [user_id |-> id, cfIp |-> IpA, xff |-> <<>>]
Anonymous(cfIp, xff) == [user_id |-> 0, cfIp |-> cfIp, xff |-> xff]

\* key = `${keyPrefix}:${identifier}`, identifier 'user:<id>' for a truthy
\* user_id, else 'ip:<address>'.
rateLimitKey(config, caller) ==
    LET keyPrefix == IF config.keyPrefix = NoPrefix THEN T_ratelimit
                     ELSE config.keyPrefix
        ipAddress == IF caller.cfIp # <<>> THEN caller.cfIp
                     ELSE IF caller.xff # <<>> THEN caller.xff
                     ELSE T_unknown
        identifier == IF caller.user_id # 0
                      THEN T_user \o ToDigits(caller.user_id)
                      ELSE T_ip \o ipAddress
    IN  keyPrefix \o <<58>> \o identifier

\* An entry of the namespace: the stored value and the second it expires.
NoData == [count |-> 0, resetAt |-> 0]              \* get(...) returned null
\* SESSIONS.get(key, 'json') at second nowSec: an expired entry is gone.
KVGet(kv, key, nowSec) ==
    IF key \in DOMAIN kv /\ kv[key].expiration > nowSec THEN kv[key].value
    ELSE NoData

\* SESSIONS.put(key, value, {expirationTtl}) at second nowSec.
KVPut(kv, key, value, expirationTtl, nowSec) ==
    [k \in DOMAIN kv \cup {key} |->
        IF k = key THEN [value |-> value, expiration |-> nowSec + expirationTtl]
        ELSE kv[k]]

NoResponse == [status |-> 0]
\* The 429 of rateLimit.
TooManyRequests(limit, retryAfter, resetAt) ==
    [status |-> 429,
     headers |-> ("Retry-After" :> ToDigits(retryAfter))
                 @@ ("X-RateLimit-Limit" :> ToDigits(limit))
                 @@ ("X-RateLimit-Remaining" :> <<48>>)
                 @@ ("X-RateLimit-Reset" :> ToDigits(resetAt)),
     body |-> [error |-> "Too Many Requests",
               message |-> <<"Rate limit exceeded. Try again in ", retryAfter,
                             " seconds.">>,
               retry_after |-> retryAfter]]

NoPut == [value |-> NoData, expirationTtl |-> 0]

\* The decision that counts a call even at the limit.
rateLimitDecisionNoLimit(data, config, nowSec) ==
    IF data # NoData /\ data.resetAt > nowSec THEN
        [reject |-> FALSE, resp |-> NoResponse,
         put |-> [value |-> [count |-> data.count + 1, resetAt |-> data.resetAt],
                  expirationTtl |-> data.resetAt - nowSec]]
    ELSE
        [reject |-> FALSE, resp |-> NoResponse,
         put |-> [value |-> [count |-> 1, resetAt |-> nowSec + config.windowSeconds],
                  expirationTtl |-> config.windowSeconds]]

\* A sliding window: every allowed call moves resetAt to now + windowSeconds.
rateLimitDecisionSliding(data, config, nowSec) ==
    IF data # NoData /\ data.resetAt > nowSec /\ data.count >= config.limit THEN
        [reject |-> TRUE,
         resp |-> TooManyRequests(config.limit, data.resetAt - nowSec,
                                  data.resetAt),
         put |-> NoPut]
    ELSE
        [reject |-> FALSE, resp |-> NoResponse,
         put |-> [value |-> [count |-> IF data # NoData /\ data.resetAt > nowSec
                                       THEN data.count + 1 ELSE 1,
                             resetAt |-> nowSec + config.windowSeconds],
                  expirationTtl |-> config.windowSeconds]]

\* What the middleware does with the value it read, at now = nowSec: inside
\* the window (resetAt > now) reject at count >= limit, else write count + 1
\* with the remaining window as TTL; otherwise open a window with count 1.
rateLimitDecision(data, config, nowSec) ==
    IF data # NoData /\ data.resetAt > nowSec THEN
        IF data.count >= config.limit THEN
            [reject |-> TRUE,
             resp |-> TooManyRequests(config.limit, data.resetAt - nowSec,
                                      data.resetAt),
             put |-> NoPut]
        ELSE
            [reject |-> FALSE, resp |-> NoResponse,
             put |-> [value |-> [count |-> data.count + 1,
                                 resetAt |-> data.resetAt],
                      expirationTtl |-> data.resetAt - nowSec]]
    ELSE
        [reject |-> FALSE, resp |-> NoResponse,
         put |-> [value |-> [count |-> 1, resetAt |-> nowSec + config.windowSeconds],
                  expirationTtl |-> config.windowSeconds]]

Limiters == {1, 2}
LimiterIdle ==
    [pc |-> "idle", class |-> "none", caller |-> Anonymous(<<>>, <<>>),
     key |-> <<>>, at |-> 0, put |-> NoPut, resp |-> NoResponse,
     nextCalls |-> 0, storeFailed |-> FALSE]

\* next(): the downstream handler runs, once more, and answers.
LimiterNext(rec, storeFailed) ==
    [rec EXCEPT !.pc = "done", !.put = NoPut, !.resp = [status |-> 200],
                !.nextCalls = @ + 1, !.storeFailed = storeFailed]

\* The catch block that answers 503 instead of going on.
LimiterCatchFailsClosed(rec) ==
    [rec EXCEPT !.pc = "done", !.put = NoPut, !.resp = [status |-> 503],
                !.storeFailed = TRUE]

\* catch (error) { console.error(...); await next(); }
LimiterCatch(rec) == LimiterNext(rec, TRUE)

\* One line of the history of calls: who called under which class and key,
\* the second the middleware read as now, how the call ended and the window
\* (its resetAt) the call was counted in.
LogEntry(class, caller, key, nowSec, outcome, window) ==
    [class |-> class, caller |-> caller, key |-> key, at |-> nowSec,
     outcome |-> outcome, window |-> window]

\* From the call to the first await and on to the put or the response:
\* SESSIONS.get, now = Math.floor(Date.now() / 1000), the decision.
RateLimitGet(p, classes, callers, gets, reuse) ==
    \E class \in classes, caller \in callers, getOk \in gets :
        /\ limiter[p].pc = "idle" \/ (reuse /\ limiter[p].pc = "done")
        /\ Len(limitLog) + Cardinality({q \in Limiters : limiter[q].pc = "put"})
               < MaxCalls
        /\ LET config == LimitConfigs[class]
               key == rateLimitKey(config, caller)
               nowSec == now \div 1000
               d == rateLimitDecision(KVGet(SESSIONS, key, nowSec), config, nowSec)
               rec == [LimiterIdle EXCEPT !.class = class, !.caller = caller,
                                          !.key = key, !.at = nowSec]
           IN  IF ~getOk THEN
                   /\ limiter' = [limiter EXCEPT ![p] = LimiterCatch(rec)]
                   /\ limitLog' = Append(limitLog,
                          LogEntry(class, caller, key, nowSec, "StoreFailed", 0))
               ELSE IF d.reject THEN
                   /\ limiter' = [limiter EXCEPT ![p] =
                                     [rec EXCEPT !.pc = "done", !.resp = d.resp]]
                   /\ limitLog' = Append(limitLog,
                          LogEntry(class, caller, key, nowSec, "RateLimited",
                                   KVGet(SESSIONS, key, nowSec).resetAt))
               ELSE
                   /\ limiter' = [limiter EXCEPT ![p] =
                                     [rec EXCEPT !.pc = "put", !.put = d.put]]
                   /\ UNCHANGED limitLog
        /\ UNCHANGED <<SESSIONS, routeReq>>
        /\ UNCHANGED <<isoVars, now, linkVars, jwtVars, lateVars>>

\* The put takes effect (or throws), the headers are set and next() runs.
RateLimitPut(p, puts) ==
    \E putOk \in puts :
        /\ limiter[p].pc = "put"
        /\ LET rec == limiter[p]
               nowSec == now \div 1000
           IN  IF putOk THEN
                   /\ SESSIONS' = KVPut(SESSIONS, rec.key, rec.put.value,
                                        rec.put.expirationTtl, nowSec)
                   /\ limiter' = [limiter EXCEPT ![p] = LimiterNext(rec, FALSE)]
                   /\ limitLog' = Append(limitLog,
                          LogEntry(rec.class, rec.caller, rec.key, rec.at,
                                   "Allowed", rec.put.value.resetAt))
               ELSE
                   /\ UNCHANGED SESSIONS
                   /\ limiter' = [limiter EXCEPT ![p] = LimiterCatch(rec)]
                   /\ limitLog' = Append(limitLog,
                          LogEntry(rec.class, rec.caller, rec.key, rec.at,
                                   "StoreFailed", 0))
        /\ UNCHANGED routeReq
        /\ UNCHANGED <<isoVars, now, linkVars, jwtVars, lateVars>>

(***************************************************************************)
(* The resource routes and their middleware chains                         *)
(* (routes/deals.ts, routes/documents.ts, routes/workflows.ts, index.ts)   *)
(***************************************************************************)
\* Each route that names a deal, a document or a workflow: the middlewares in
\* the order the route lists them, the route parameter that carries the id
\* ('body' for deal_id in the JSON body) and the limit class of its rateLimit.
Route(name, chain, idParam, class) ==
    [name |-> name, chain |-> chain, idParam |-> idParam, class |-> class]

DealRoutes ==
    {Route("GET /api/deals/:id",
           <<"authenticate", "enforceDealAccess", "handler">>, "id", "none"),
     Route("PUT /api/deals/:id",
           <<"authenticate", "enforceDealAccess", "zValidator", "handler">>,
           "id", "none"),
     Route("DELETE /api/deals/:id",
           <<"authenticate", "enforceDealAccess", "handler">>, "id", "none")}

DocumentRoutes ==
    {Route("POST /api/documents/request-upload",
           <<"authenticate", "rateLimit", "zValidator", "handler">>,
           "body", "UPLOAD"),
     Route("POST /api/documents/:id/confirm-upload",
           <<"authenticate", "enforceDocumentAccess", "handler">>, "id", "none"),
     Route("GET /api/documents/deal/:dealId",
           <<"authenticate", "enforceDealAccess", "handler">>, "dealId", "none"),
     Route("GET /api/documents/:id",
           <<"authenticate", "enforceDocumentAccess", "handler">>, "id", "none"),
     Route("GET /api/documents/:id/download",
           <<"authenticate", "rateLimit", "enforceDocumentAccess", "handler">>,
           "id", "DOWNLOAD"),
     Route("DELETE /api/documents/:id",
           <<"authenticate", "enforceDocumentAccess", "handler">>, "id", "none")}

WorkflowRoutes ==
    {Route("POST /api/deals/:dealId/analysis/start",
           <<"authenticate", "enforceDealAccess", "handler">>, "dealId", "none"),
     Route("GET /api/deals/:dealId/analysis/workflows",
           <<"authenticate", "enforceDealAccess", "handler">>, "dealId", "none"),
     Route("GET /api/workflows/:workflowId",
           <<"authenticate", "enforceWorkflowAccess", "handler">>,
           "workflowId", "none"),
     Route("POST /api/deals/:dealId/analysis/workflows/:workflowId/execute",
           <<"authenticate", "rateLimit", "enforceDealAccess", "handler">>,
           "dealId", "WORKFLOW")}

\* The routes without their isolation middleware.
RoutesHandlerFirst ==
    {[r EXCEPT !.chain = <<"authenticate", "handler">>] :
        r \in DealRoutes \cup DocumentRoutes \cup WorkflowRoutes}

Routes == DealRoutes \cup DocumentRoutes \cup WorkflowRoutes

RouteNamed(name) == CHOOSE r \in Routes : r.name = name

\* The caller signed in earlier as a user of firm A.  The Authorization header
\* of a request: none, the session token, or that token with its payload
\* rewritten for firm B.
RouteClaims ==
    [user_id |-> 1, firm_id |-> FirmA, email |-> EmailA, role |-> RoleInvestor]
RouteSession ==
    [token |-> createToken(RouteClaims, JWT_SECRET, ACCESS_TOKEN_MINUTES, Epoch),
     claims |-> RouteClaims, minutes |-> ACCESS_TOKEN_MINUTES,
     secret |-> JWT_SECRET, at |-> Epoch]
RouteAuths == {"none", "genuine", "tampered"}
RouteHeader(token, auth) ==
    IF auth = "genuine" THEN BEARER \o token
    ELSE IF auth = "tampered" THEN BEARER \o Tampered(token, "firm_id", "kept")
    ELSE NoHeader

\* The id a request names: a path segment is never empty.
RouteIds == IsoParams \ {<<>>}

NoRouteRequest ==
    [route |-> "none", pc |-> 0, auth |-> "none", header |-> NoHeader,
     user |-> NoUser, id |-> <<>>,
     wid |-> <<>>, status |-> 0, ran |-> <<>>, touched |-> {}]

\* c.get('user') as the isolation middlewares and the handlers read it.
CtxUser(claims) == [user_id |-> claims.user_id, firm_id |-> claims.firm_id]

\* The middleware at hand answered: the chain stops.
RouteRespond(status) ==
    routeReq' = [routeReq EXCEPT !.pc = 0, !.status = status,
                                 !.ran = Append(@, RouteNamed(routeReq.route).chain[routeReq.pc])]
\* The middleware at hand called next().
RouteGoOn ==
    routeReq' = [routeReq EXCEPT !.pc = @ + 1,
                                 !.ran = Append(@, RouteNamed(routeReq.route).chain[routeReq.pc])]

RouteAt(mw) ==
    /\ routeReq.pc > 0
    /\ RouteNamed(routeReq.route).chain[routeReq.pc] = mw

\* A request arrives at a route.
RouteArrive ==
    \E r \in Routes, j \in jwtIssued, auth \in RouteAuths :
        /\ routeReq = NoRouteRequest
        /\ routeReq' = [NoRouteRequest EXCEPT
               !.route = r.name, !.pc = 1, !.auth = auth,
               !.header = RouteHeader(j.token, auth)]
        /\ UNCHANGED <<SESSIONS, limiter, limitLog>>
        /\ UNCHANGED <<isoVars, now, linkVars, jwtVars, lateVars>>

\* authenticate answers 401 or sets the user and calls next().  Nothing reads
\* the ids the request names before that: they are drawn here.
RouteAuthenticate ==
    /\ RouteAt("authenticate")
    /\ LET resp == authenticate(routeReq.header, now) IN
       IF resp.handlerRan THEN
           \E id \in RouteIds, wid \in {ToDigits(n) : n \in 1..MaxWorkflowId} :
               routeReq' = [routeReq EXCEPT
                   !.pc = @ + 1, !.user = CtxUser(resp.user),
                   !.ran = Append(@, "authenticate"), !.id = id,
                   !.wid = IF RouteNamed(routeReq.route).class = "WORKFLOW"
                           THEN wid ELSE <<>>]
       ELSE RouteRespond(resp.status)
    /\ UNCHANGED <<SESSIONS, limiter, limitLog>>
    /\ UNCHANGED <<isoVars, now, linkVars, jwtVars, lateVars>>

\* rateLimit(RATE_LIMITS.<class>) in a chain, from the get to next().
RouteRateLimit ==
    \E getOk \in BOOLEAN, putOk \in BOOLEAN :
        /\ RouteAt("rateLimit")
        /\ LET config == RATE_LIMITS[RouteNamed(routeReq.route).class]
               key == rateLimitKey(config, SignedIn(routeReq.user.user_id))
               nowSec == now \div 1000
               d == rateLimitDecision(KVGet(SESSIONS, key, nowSec), config, nowSec)
           IN  IF getOk /\ d.reject THEN
                   RouteRespond(d.resp.status) /\ UNCHANGED SESSIONS
               ELSE
                   /\ RouteGoOn
                   /\ SESSIONS' = IF getOk /\ putOk
                                  THEN KVPut(SESSIONS, key, d.put.value,
                                             d.put.expirationTtl, nowSec)
                                  ELSE SESSIONS
        /\ UNCHANGED <<limiter, limitLog>>
        /\ UNCHANGED <<isoVars, now, linkVars, jwtVars, lateVars>>

\* The isolation middleware of the chain, with the parameters the route has.
RouteEnforce ==
    \E dbOk \in BOOLEAN :
        /\ routeReq.pc > 0
        /\ LET r == RouteNamed(routeReq.route)
               mw == r.chain[routeReq.pc]
               p1 == IF r.idParam = "id" THEN routeReq.id ELSE <<>>
               p2 == IF r.idParam = "id" THEN <<>> ELSE routeReq.id
               resp == CASE mw = "enforceDealAccess" ->
                                enforceDealAccess(routeReq.user, p1, p2, dbOk)
                         [] mw = "enforceDocumentAccess" ->
                                enforceDocumentAccess(routeReq.user, p1, p2, dbOk)
                         [] mw = "enforceWorkflowAccess" ->
                                enforceWorkflowAccess(routeReq.user, p1, p2, dbOk)
           IN  /\ mw \in {"enforceDealAccess", "enforceDocumentAccess",
                          "enforceWorkflowAccess"}
               /\ IF resp.handlerRan THEN RouteGoOn ELSE RouteRespond(resp.status)
        /\ UNCHANGED <<SESSIONS, limiter, limitLog>>
        /\ UNCHANGED <<isoVars, now, linkVars, jwtVars, lateVars>>

\* zValidator('json', schema): 400 on a body the schema rejects.  deal_id of
\* request-upload has to be a positive integer.
RouteValidate ==
    \E bodyOk \in BOOLEAN :
        /\ RouteAt("zValidator")
        /\ LET r == RouteNamed(routeReq.route)
               idOk == r.idParam # "body" \/
                       (DigitPrefix(routeReq.id) = routeReq.id
                        /\ parseInt(routeReq.id) > 0)
           IN  IF bodyOk /\ idOk THEN RouteGoOn ELSE RouteRespond(400)
        /\ UNCHANGED <<SESSIONS, limiter, limitLog>>
        /\ UNCHANGED <<isoVars, now, linkVars, jwtVars, lateVars>>

\* A row a handler read or wrote, with the firm that owned it then.
Touch(op, kind, id, firm) == [op |-> op, kind |-> kind, id |-> id, firm |-> firm]
TouchDeal(op, n) ==
    {Touch(op, "deal", d, deals[d]) : d \in {x \in DOMAIN deals : x = n}}
TouchDocument(op, n) ==
    {Touch(op, "document", d, deals[documents[d]]) :
        d \in {x \in DOMAIN documents : x = n}}
TouchDocumentsOf(op, n) ==
    {Touch(op, "document", d, deals[documents[d]]) :
        d \in {x \in DOMAIN documents : documents[x] = n}}
TouchWorkflowsOf(op, n) ==
    {Touch(op, "workflow", w, deals[workflows[w]]) :
        w \in {x \in DOMAIN workflows : workflows[x] = n}}
TouchWorkflow(op, n) ==
    {Touch(op, "workflow", w, deals[workflows[w]]) :
        w \in {x \in DOMAIN workflows : x = n}}

NextSerial(table) ==
    IF DOMAIN table = {} THEN 1
    ELSE 1 + (CHOOSE n \in DOMAIN table : \A m \in DOMAIN table : m <= n)
InsertRow(table, dealId) ==
    [k \in DOMAIN table \cup {NextSerial(table)} |->
        IF k \in DOMAIN table THEN table[k] ELSE dealId]
DeleteRow(table, id) == [k \in DOMAIN table \ {id} |-> table[k]]

\* The handler of each route: the rows its queries read and write, its
\* status, and the tables after it.
RouteHandler ==
    /\ RouteAt("handler")
    /\ LET name == routeReq.route
           n == parseInt(routeReq.id)
           w == parseInt(routeReq.wid)
           user == routeReq.user
           Done(status, touched) ==
               routeReq' = [routeReq EXCEPT !.pc = 0, !.status = status,
                                            !.ran = Append(@, "handler"),
                                            !.touched = touched]
           Found(rows, touched) ==
               IF rows = {} THEN Done(404, rows) ELSE Done(200, touched)
       IN  CASE name = "GET /api/deals/:id" ->
                    /\ Found(TouchDeal("read", n), TouchDeal("read", n))
                    /\ UNCHANGED <<deals, documents, workflows>>
             [] name \in {"PUT /api/deals/:id", "DELETE /api/deals/:id"} ->
                    /\ Found(TouchDeal("update", n), TouchDeal("update", n))
                    /\ UNCHANGED <<deals, documents, workflows>>
             [] name = "POST /api/documents/request-upload" ->
                    \* SELECT ... WHERE id = deal_id AND firm_id = user.firm_id
                    LET found == {t \in TouchDeal("read", n) : t.firm = user.firm_id}
                    IN  IF found = {} THEN
                            /\ Done(404, {})
                            /\ UNCHANGED <<deals, documents, workflows>>
                        ELSE
                            /\ Done(200, found \cup TouchDeal("insertDocument", n))
                            /\ documents' = InsertRow(documents, n)
                            /\ UNCHANGED <<deals, workflows>>
             [] name \in {"POST /api/documents/:id/confirm-upload",
                          "GET /api/documents/:id",
                          "GET /api/documents/:id/download"} ->
                    /\ Found(TouchDocument("read", n), TouchDocument("read", n))
                    /\ UNCHANGED <<deals, documents, workflows>>
             [] name = "GET /api/documents/deal/:dealId" ->
                    /\ Done(200, TouchDocumentsOf("read", n))
                    /\ UNCHANGED <<deals, documents, workflows>>
             [] name = "DELETE /api/documents/:id" ->
                    /\ Found(TouchDocument("read", n),
                             TouchDocument("read", n) \cup TouchDocument("delete", n))
                    /\ documents' = DeleteRow(documents, n)
                    /\ UNCHANGED <<deals, workflows>>
             [] name = "POST /api/deals/:dealId/analysis/start" ->
                    IF TouchDeal("read", n) = {} THEN
                        /\ Done(404, {})
                        /\ UNCHANGED <<deals, documents, workflows>>
                    ELSE IF TouchDocumentsOf("read", n) = {} THEN
                        /\ Done(400, TouchDeal("read", n))
                        /\ UNCHANGED <<deals, documents, workflows>>
                    ELSE
                        /\ Done(200, TouchDeal("read", n)
                                     \cup TouchDocumentsOf("read", n)
                                     \cup TouchDeal("update", n)
                                     \cup TouchDeal("insertWorkflow", n))
                        /\ workflows' = InsertRow(workflows, n)
                        /\ UNCHANGED <<deals, documents>>
             [] name = "GET /api/deals/:dealId/analysis/workflows" ->
                    /\ Done(200, TouchWorkflowsOf("read", n))
                    /\ UNCHANGED <<deals, documents, workflows>>
             [] name = "GET /api/workflows/:workflowId" ->
                    /\ Found(TouchWorkflow("read", n), TouchWorkflow("read", n))
                    /\ UNCHANGED <<deals, documents, workflows>>
             [] name = "POST /api/deals/:dealId/analysis/workflows/:workflowId/execute" ->
                    \* SELECT ... WHERE id = workflowId AND deal_id = dealId
                    LET found == {t \in TouchWorkflow("read", w) : workflows[t.id] = n}
                    IN  /\ Found(found, found \cup
                                   {[t EXCEPT !.op = "update"] : t \in found})
                        /\ UNCHANGED <<deals, documents, workflows>>
    /\ UNCHANGED <<isoLast, SESSIONS, limiter, limitLog>>
    /\ UNCHANGED <<now, linkVars, jwtVars, lateVars>>

(***************************************************************************)
(* Sessions in use: the tokens verify-magic-link returned, on the deal     *)
(* routes (routes/deals.ts)                                                *)
(***************************************************************************)
EmailC == <<99, 64, 122, 46, 105, 111>>          \* c@z.io

\* The Authorization header of the client that holds the tokens of verifier v.
SessionBearer(v) == BEARER \o verifier[v].accessToken

SessionRoutes == {"POST /api/deals", "GET /api/deals/:id"}

\* The client of verifier v sends a request to one of the deal routes.
SessionArrive(v, routes) ==
    \E route \in routes :
        /\ verifier[v].status = 200
        /\ routeReq.pc = 0
        /\ routeReq' = [NoRouteRequest EXCEPT
               !.route = route, !.pc = 1, !.auth = "genuine",
               !.header = SessionBearer(v)]
        /\ UNCHANGED <<SESSIONS, limiter, limitLog>>
        /\ UNCHANGED <<isoVars, now, linkVars, jwtVars, lateVars>>

\* The middleware or handler at hand answers the request.
SessionAnswer(status, name, touched) ==
    routeReq' = [routeReq EXCEPT !.pc = 0, !.status = status,
                                 !.ran = Append(@, name), !.touched = touched]

\* authenticate, first in the chain of both routes.
SessionAuthenticate ==
    /\ routeReq.route \in SessionRoutes /\ routeReq.pc = 1
    /\ LET resp == authenticate(routeReq.header, now) IN
       IF resp.handlerRan THEN
           routeReq' = [routeReq EXCEPT !.pc = 2, !.user = CtxUser(resp.user),
                                        !.ran = Append(@, "authenticate")]
       ELSE SessionAnswer(resp.status, "authenticate", {})
    /\ UNCHANGED <<SESSIONS, limiter, limitLog>>
    /\ UNCHANGED <<isoVars, now, linkVars, jwtVars, lateVars>>

\* POST /api/deals after authenticate: zValidator('json', CreateDealSchema),
\* then INSERT INTO deals (..., firm_id) VALUES (..., user.firm_id) RETURNING *.
PostDeal(valids, dbs) ==
    \E valid \in valids, dbOk \in dbs :
        /\ routeReq.route = "POST /api/deals" /\ routeReq.pc = 2
        /\ Cardinality(DOMAIN deals) < MaxDealId
        /\ IF ~valid THEN
               /\ SessionAnswer(400, "zValidator", {})
               /\ UNCHANGED deals
           ELSE IF ~dbOk THEN
               /\ SessionAnswer(500, "handler", {})
               /\ UNCHANGED deals
           ELSE
               /\ deals' = InsertRow(deals, routeReq.user.firm_id)
               /\ routeReq' = [routeReq EXCEPT
                      !.pc = 0, !.status = 201, !.id = ToDigits(NextSerial(deals)),
                      !.ran = Append(@, "handler"),
                      !.touched = {Touch("insert", "deal", NextSerial(deals),
                                         routeReq.user.firm_id)}]
        /\ UNCHANGED <<documents, workflows, isoLast>>
        /\ UNCHANGED <<SESSIONS, limiter, limitLog>>
        /\ UNCHANGED <<now, linkVars, jwtVars, lateVars>>

\* GET /api/deals/:id after authenticate: enforceDealAccess, then SELECT *
\* FROM deals WHERE id = $1.
GetDeal(dbs) ==
    \E n \in 1..MaxDealId, dbOk \in dbs :
        /\ routeReq.route = "GET /api/deals/:id" /\ routeReq.pc = 2
        /\ LET access == enforceDealAccess(routeReq.user, ToDigits(n), <<>>, dbOk) IN
           IF ~access.handlerRan THEN
               routeReq' = [routeReq EXCEPT
                   !.pc = 0, !.status = access.status, !.id = ToDigits(n),
                   !.ran = Append(@, "enforceDealAccess")]
           ELSE
               routeReq' = [routeReq EXCEPT
                   !.pc = 0, !.id = ToDigits(n),
                   !.status = IF TouchDeal("read", n) = {} THEN 404 ELSE 200,
                   !.ran = @ \o <<"enforceDealAccess", "handler">>,
                   !.touched = TouchDeal("read", n)]
        /\ UNCHANGED <<SESSIONS, limiter, limitLog>>
        /\ UNCHANGED <<isoVars, now, linkVars, jwtVars, lateVars>>

(***************************************************************************)
(* POST /auth/refresh (routes/auth.ts, schemas/auth.ts)                    *)
(***************************************************************************)
MaxRefreshed == 2

NoRefresh ==
    [pc |-> "idle", token |-> NoToken, source |-> NoToken, how |-> NoDerivation,
     result |-> [pc |-> "idle", status |-> 0, payload |-> NoClaims, error |-> ""],
     accessToken |-> NoToken]

\* The claims refresh copies from the payload verifyToken returned.
RefreshClaims(payload) ==
    [user_id |-> payload.user_id, firm_id |-> payload.firm_id,
     email |-> payload.email, role |-> payload.role]

\* The first half of the handler, without the comparison of signatures.
refreshVerifyUnsigned(refreshToken, nowMs) ==
    LET r == verifyTokenUnsigned(refreshToken, JWT_SECRET, nowMs) IN
    IF Len(refreshToken) < 1 THEN
        [pc |-> "done", status |-> 400, payload |-> NoClaims,
         error |-> "Refresh token required"]
    ELSE IF r.ok THEN
        [pc |-> "sign", status |-> 0, payload |-> RefreshClaims(r.payload),
         error |-> ""]
    ELSE
        [pc |-> "done", status |-> 401, payload |-> NoClaims,
         error |-> "Invalid refresh token"]

\* zValidator('json', refreshTokenSchema), then verifyToken(refreshToken,
\* JWT_SECRET): 400 on an empty text, 401 from the catch when verifyToken
\* throws, else on to createToken with the payload's claims.
refreshVerify(refreshToken, nowMs) ==
    LET r == verifyToken(refreshToken, JWT_SECRET, nowMs) IN
    IF Len(refreshToken) < 1 THEN
        [pc |-> "done", status |-> 400, payload |-> NoClaims,
         error |-> "Refresh token required"]
    ELSE IF r.ok THEN
        [pc |-> "sign", status |-> 0, payload |-> RefreshClaims(r.payload),
         error |-> ""]
    ELSE
        [pc |-> "done", status |-> 401, payload |-> NoClaims,
         error |-> "Invalid refresh token"]

\* The tokens the signed-in client holds: the two verify-magic-link returned
\* and the access tokens refresh has returned since.
HeldTokens ==
    {verifier[1].accessToken, verifier[1].refreshToken}
    \cup {j.token : j \in jwtIssued}

\* What the client sends as refreshToken: a token it holds, as it is or
\* changed, or the empty text.
RefreshDerivations ==
    {<<"shape", "genuine", "">>, <<"shape", "resigned", "">>,
     <<"shape", "twoSegments", "">>, <<"shape", "empty", "">>,
     <<"tamper", "firm_id", "kept">>, <<"tamper", "user_id", "other">>}

RefreshBody(token, d) == IF d[2] = "empty" THEN <<>> ELSE Derived(token, d)

\* A POST /auth/refresh call arrives with its body.
RefreshArrive ==
    \E token \in HeldTokens, d \in RefreshDerivations :
        /\ verifier[1].status = 200
        /\ refreshLast = NoRefresh
        /\ refreshLast' = [NoRefresh EXCEPT !.pc = "arrived",
                              !.token = RefreshBody(token, d),
                              !.source = token, !.how = d]
        /\ UNCHANGED <<client, workflowRuns>>
        /\ UNCHANGED <<isoVars, now, linkVars, jwtVars, moreVars>>

\* Validation and verifyToken: the call is answered 400 or 401, or goes on.
RefreshVerify ==
    /\ refreshLast.pc = "arrived"
    /\ refreshLast' = [refreshLast EXCEPT !.pc = "verified",
                          !.result = refreshVerify(refreshLast.token, now)]
    /\ UNCHANGED <<client, workflowRuns>>
    /\ UNCHANGED <<isoVars, now, linkVars, jwtVars, moreVars>>

\* createToken(claims, JWT_SECRET, 60) and the 200 response.
RefreshSign ==
    /\ refreshLast.pc = "verified"
    /\ refreshLast.result.pc = "sign"
    /\ Cardinality(jwtIssued) < MaxRefreshed
    /\ refreshLast' = [refreshLast EXCEPT !.pc = "signed"]
    /\ jwtIssued' = jwtIssued \cup
           {[token |-> createToken(refreshLast.result.payload, JWT_SECRET,
                                   ACCESS_TOKEN_MINUTES, now),
             claims |-> refreshLast.result.payload,
             minutes |-> ACCESS_TOKEN_MINUTES, secret |-> JWT_SECRET,
             at |-> now]}
    /\ UNCHANGED <<jwtLast, authLast, client, workflowRuns>>
    /\ UNCHANGED <<isoVars, now, linkVars, moreVars>>

\* c.json({ accessToken }): the token just signed is the response's body.
RefreshRespond ==
    /\ refreshLast.pc = "signed"
    /\ \E j \in jwtIssued :
           /\ j.at = now /\ j.claims = refreshLast.result.payload
           /\ j.minutes = ACCESS_TOKEN_MINUTES
           /\ refreshLast' = [refreshLast EXCEPT !.pc = "done",
                                 !.result.status = 200,
                                 !.accessToken = j.token]
    /\ UNCHANGED <<client, workflowRuns>>
    /\ UNCHANGED <<isoVars, now, linkVars, jwtVars, moreVars>>

\* The instants of a session: the login, the last minute of its access token,
\* the second the refresh token expires in (7 days on), 59 minutes later and
\* two minutes after that.
RefreshTimes ==
    {Epoch, Epoch + 3540000, Epoch + 604800000, Epoch + 608340000,
     Epoch + 608460000}

RefreshTick ==
    /\ verifier[1].status = 200
    /\ refreshLast.pc \in {"idle", "done"} \/ refreshLast.result.pc = "done"
    /\ \E t \in RefreshTimes : t > now /\ now' = t
    /\ refreshLast' = NoRefresh
    /\ UNCHANGED <<client, workflowRuns>>
    /\ UNCHANGED <<isoVars, linkVars, jwtVars, moreVars>>

(***************************************************************************)
(* The browser's axios instance (frontend/src/lib/axios.ts)                *)
(***************************************************************************)
MaxRequests == 3        \* requests the page makes through axiosInstance

ReqIds == 1..MaxRequests

\* A request of the page: where it is, originalRequest._retry, the token in its
\* Authorization header when it was last sent (0: none), the token its
\* promise in failedQueue was resolved with, the status of its last response
\* and whether it has been in failedQueue.
ReqIdle ==
    [pc |-> "new", retry |-> FALSE, header |-> 0, token |-> 0, resp |-> 0,
     wasQueued |-> FALSE]

\* The module's state and the page's storage: isRefreshing, failedQueue, the
\* stored access token (0: none; n: the n-th the server issued), whether a
\* refresh token is stored, whether window is defined, and where the page is.
ClientIdle ==
    [loaded |-> FALSE, window |-> FALSE, isRefreshing |-> FALSE,
     failedQueue |-> <<>>, accessToken |-> 0, refreshToken |-> FALSE,
     minted |-> 0, location |-> "app", reqs |-> [r \in ReqIds |-> ReqIdle]]

ClientFrame ==
    /\ UNCHANGED <<refreshLast, workflowRuns>>
    /\ UNCHANGED <<isoVars, now, linkVars, jwtVars, moreVars>>

\* The module is loaded, in a browser or on the server, by somebody who has
\* signed in; the refresh token may be missing from the storage.
ClientLoad(windows, stored) ==
    \E w \in windows, rt \in stored :
        /\ ~client.loaded
        /\ client' = [client EXCEPT !.loaded = TRUE, !.window = w,
                                    !.accessToken = 1, !.minted = 1,
                                    !.refreshToken = rt]
        /\ ClientFrame

\* The continuations of resolved promises run before the next response or
\* call of the page is handled.
NoMicrotask == \A r \in ReqIds : client.reqs[r].pc # "resolved"

\* The request interceptor: Authorization is set from getAccessToken() when
\* there is a token, else the header stays as it was.
requestInterceptor(header, accessToken) ==
    IF accessToken # 0 THEN accessToken ELSE header

\* The page calls axiosInstance(config).
ClientSend(r) ==
    /\ client.loaded /\ NoMicrotask
    /\ client.reqs[r].pc = "new"
    /\ client' = [client EXCEPT
            !.reqs[r].pc = "sent",
            !.reqs[r].header = requestInterceptor(@, client.accessToken)]
    /\ ClientFrame

\* A response that is not an error: (response) => response.
Respond200(r) ==
    /\ NoMicrotask
    /\ client.reqs[r].pc = "sent"
    /\ client' = [client EXCEPT !.reqs[r].pc = "done", !.reqs[r].resp = 200]
    /\ ClientFrame

\* An error that is not a 401 (another status, or no response at all).
RespondError(r) ==
    /\ NoMicrotask
    /\ client.reqs[r].pc = "sent"
    /\ client' = [client EXCEPT !.reqs[r].pc = "rejected", !.reqs[r].resp = 500]
    /\ ClientFrame

\* The interceptor that starts a refresh on every first 401.
interceptorPathUnguarded(retry, isRefreshing, refreshToken) ==
    IF retry THEN "reject"
    ELSE IF ~refreshToken THEN "noToken"
    ELSE "refresh"

\* The way a 401 takes through the response interceptor: rejected when the
\* request was retried before, queued while a refresh is in progress, else
\* this request refreshes, if a refresh token is stored.
interceptorPath(retry, isRefreshing, refreshToken) ==
    IF retry THEN "reject"
    ELSE IF isRefreshing THEN "queue"
    ELSE IF ~refreshToken THEN "noToken"
    ELSE "refresh"

\* clearAuth(), and window.location.href = '/auth/login' where there is a
\* window.
ClearAndRedirect(c) ==
    [c EXCEPT !.accessToken = 0, !.refreshToken = FALSE,
              !.location = IF c.window THEN "login" ELSE @]

\* A 401 arrives: the interceptor up to its first await or its return.
Respond401(r) ==
    /\ NoMicrotask
    /\ client.reqs[r].pc = "sent"
    /\ LET path == interceptorPath(client.reqs[r].retry, client.isRefreshing,
                                   client.refreshToken)
           got == [client EXCEPT !.reqs[r].resp = 401]
       IN  client' =
             IF path = "reject" THEN
                 [got EXCEPT !.reqs[r].pc = "rejected"]
             ELSE IF path = "queue" THEN
                 [got EXCEPT !.reqs[r].pc = "queued",
                             !.reqs[r].wasQueued = TRUE,
                             !.failedQueue = Append(@, r)]
             ELSE IF path = "noToken" THEN
                 [ClearAndRedirect(got) EXCEPT
                     !.reqs[r].pc = "rejected", !.reqs[r].retry = TRUE,
                     !.isRefreshing = TRUE]
             ELSE
                 [got EXCEPT !.reqs[r].pc = "refreshing",
                             !.reqs[r].retry = TRUE,
                             !.isRefreshing = TRUE]
    /\ ClientFrame

InQueue(c, q) == \E k \in 1..Len(c.failedQueue) : c.failedQueue[k] = q

\* processQueue(error, token): every promise of failedQueue is rejected, or
\* resolved with the token, and the queue is emptied.
processQueue(c, error, token) ==
    [c EXCEPT
        !.failedQueue = <<>>,
        !.reqs = [q \in ReqIds |->
                    IF ~InQueue(c, q) THEN c.reqs[q]
                    ELSE IF error THEN [c.reqs[q] EXCEPT !.pc = "rejected"]
                    ELSE [c.reqs[q] EXCEPT !.pc = "resolved", !.token = token]]]

\* refreshAccessToken returned: saveAuthTokens, processQueue(null,
\* accessToken), isRefreshing = false and the original request is sent again.
RefreshSucceeds(r) ==
    /\ NoMicrotask
    /\ client.reqs[r].pc = "refreshing"
    /\ LET accessToken == client.minted + 1
           saved == [client EXCEPT !.minted = accessToken,
                                   !.accessToken = accessToken]
       IN  client' = [processQueue(saved, FALSE, accessToken) EXCEPT
                         !.isRefreshing = FALSE,
                         !.reqs[r].pc = "sent",
                         !.reqs[r].header = accessToken]
    /\ ClientFrame

\* refreshAccessToken threw: processQueue(refreshError), isRefreshing =
\* false, clearAuth, the redirect, and the original request is rejected.
RefreshFails(r) ==
    /\ NoMicrotask
    /\ client.reqs[r].pc = "refreshing"
    /\ client' = [ClearAndRedirect(processQueue(client, TRUE, 0)) EXCEPT
                     !.isRefreshing = FALSE,
                     !.reqs[r].pc = "rejected"]
    /\ ClientFrame

\* The continuation of a queued request whose promise was resolved: the
\* header is set to the token and the request goes through axiosInstance
\* again.
QueuedResumes(r) ==
    /\ client.reqs[r].pc = "resolved"
    /\ client' = [client EXCEPT
            !.reqs[r].pc = "sent",
            !.reqs[r].header =
                requestInterceptor(client.reqs[r].token, client.accessToken)]
    /\ ClientFrame

\* The navigation to /auth/login unloads the page: what was pending is gone
\* and the module starts afresh.
PageUnloads ==
    /\ NoMicrotask
    /\ client.location = "login"
    /\ client' = [client EXCEPT
            !.location = "app", !.isRefreshing = FALSE, !.failedQueue = <<>>,
            !.reqs = [q \in ReqIds |->
                        IF client.reqs[q].pc \in {"done", "rejected"}
                        THEN client.reqs[q]
                        ELSE [client.reqs[q] EXCEPT !.pc = "aborted"]]]
    /\ ClientFrame


(***************************************************************************)
(* Workflow execution (routes/workflows.ts)                                *)
(***************************************************************************)
MaxRuns == 2            \* workflows rows that get inserted
MaxExecutes == 3        \* execute requests followed

RunIds == 1..MaxRuns
NoRun == "none"         \* no row with this id

ExecuteIdle == [pc |-> "idle", n |-> 0, id |-> 0, status |-> 0, body |-> NoRun]

\* workflows.status per id, the execute handler in flight, the promises of
\* executeWorkflowAsync that are pending, and the number of execute requests.
WorkflowsIdle ==
    [status |-> [id \in RunIds |-> NoRun], handler |-> ExecuteIdle,
     tasks |-> {}, started |-> 0]

WorkflowFrame ==
    /\ UNCHANGED <<refreshLast, client>>
    /\ UNCHANGED <<isoVars, now, linkVars, jwtVars, moreVars>>

\* start-analysis: one turn of the loop over recommended_workflows inserts a
\* row with status 'pending' under the next serial id.
StartAnalysisInsert ==
    \E id \in RunIds :
        /\ workflowRuns.status[id] = NoRun
        /\ \A k \in RunIds : k < id => workflowRuns.status[k] # NoRun
        /\ workflowRuns' = [workflowRuns EXCEPT !.status[id] = "pending"]
        /\ WorkflowFrame

ExecuteAnswer(status, body) ==
    [workflowRuns.handler EXCEPT !.pc = "done", !.status = status, !.body = body]

\* POST .../workflows/:workflowId/execute, behind its middlewares: SELECT the
\* workflow; 404 when there is no row, 500 from the catch.
ExecuteSelect(dbs) ==
    \E id \in RunIds, dbOk \in dbs :
        /\ workflowRuns.handler.pc \in {"idle", "done"}
        /\ workflowRuns.started < MaxExecutes
        /\ LET h == [ExecuteIdle EXCEPT !.n = workflowRuns.started + 1, !.id = id]
           IN  workflowRuns' =
                 [workflowRuns EXCEPT
                    !.started = @ + 1,
                    !.handler =
                        IF ~dbOk THEN [h EXCEPT !.pc = "done", !.status = 500]
                        ELSE IF workflowRuns.status[id] = NoRun
                        THEN [h EXCEPT !.pc = "done", !.status = 404]
                        ELSE [h EXCEPT !.pc = "update"]]
        /\ WorkflowFrame

\* UPDATE workflows SET status = 'running' WHERE id = workflowId.
executeUpdate(status) == "running"

\* The update, then executeWorkflowAsync(...).catch(...) without await: the
\* promise is pending when the handler goes on.
ExecuteUpdate(dbs) ==
    \E dbOk \in dbs :
        /\ workflowRuns.handler.pc = "update"
        /\ LET h == workflowRuns.handler IN
           IF dbOk THEN
               workflowRuns' =
                 [workflowRuns EXCEPT
                    !.status[h.id] = executeUpdate(@),
                    !.tasks = @ \cup {[n |-> h.n, id |-> h.id, pc |-> "sleep"]},
                    !.handler.pc = "log"]
           ELSE
               workflowRuns' = [workflowRuns EXCEPT
                                   !.handler = ExecuteAnswer(500, NoRun)]
        /\ WorkflowFrame

\* logWorkflowExecution, the second SELECT and c.json(updatedWorkflow); 500
\* from the catch.
ExecuteReturn(dbs) ==
    \E dbOk \in dbs :
        /\ workflowRuns.handler.pc = "log"
        /\ workflowRuns' =
             [workflowRuns EXCEPT
                !.handler =
                    IF dbOk
                    THEN ExecuteAnswer(200,
                             workflowRuns.status[workflowRuns.handler.id])
                    ELSE ExecuteAnswer(500, NoRun)]
        /\ WorkflowFrame

\* executeWorkflowAsync after its two seconds: UPDATE status = 'completed';
\* when that throws, the catch block is next.
TaskComplete(dbs) ==
    \E t \in workflowRuns.tasks, dbOk \in dbs :
        /\ t.pc = "sleep"
        /\ workflowRuns' =
             IF dbOk THEN
                 [workflowRuns EXCEPT !.status[t.id] = "completed",
                                      !.tasks = @ \ {t}]
             ELSE
                 [workflowRuns EXCEPT
                     !.tasks = (@ \ {t}) \cup {[t EXCEPT !.pc = "catch"]}]
        /\ WorkflowFrame

\* The catch block: UPDATE status = 'failed'; when that throws too, the
\* promise rejects and the caller's .catch logs it.
TaskFail(dbs) ==
    \E t \in workflowRuns.tasks, dbOk \in dbs :
        /\ t.pc = "catch"
        /\ workflowRuns' =
             IF dbOk THEN
                 [workflowRuns EXCEPT !.status[t.id] = "failed",
                                      !.tasks = @ \ {t}]
             ELSE
                 [workflowRuns EXCEPT !.tasks = @ \ {t}]
        /\ WorkflowFrame

\* The promise was handed to nobody (no await, no waitUntil): once the
\* request that started it has been answered the runtime may end the
\* invocation, and the promise with it.
TaskDropped ==
    \E t \in workflowRuns.tasks :
        /\ workflowRuns.handler.n # t.n \/ workflowRuns.handler.pc = "done"
        /\ workflowRuns' = [workflowRuns EXCEPT !.tasks = @ \ {t}]
        /\ WorkflowFrame

(***************************************************************************)
(* Initial states and specifications                                       *)
(***************************************************************************)
IsoIdle ==
    /\ deals = <<>>
    /\ documents = <<>>
    /\ workflows = <<>>
    /\ isoLast = NoIsoRequest

\* One identity exists before any login; every other one is auto-provisioned.
SeedUser == [id |-> 1, email |-> EmailB, firm_id |-> FirmA, role |-> RoleInvestor]

LinkIdle ==
    /\ magicLinkTokens = {}
    /\ users = {SeedUser}
    /\ nextRowId = 1
    /\ rateLimitMap = <<>>
    /\ mailbox = {}
    /\ issuer = [i \in Issuers |-> IssuerIdle]
    /\ verifier = [v \in Verifiers |-> VerifierIdle]
    /\ consumed = {}

JwtIdle ==
    /\ jwtIssued = {}
    /\ jwtLast = NoVerify
    /\ authLast = NoAuth

MoreIdle ==
    /\ routeReq = NoRouteRequest
    /\ SESSIONS = <<>>
    /\ limiter = [p \in Limiters |-> LimiterIdle]
    /\ limitLog = <<>>

LateIdle ==
    /\ refreshLast = NoRefresh
    /\ client = ClientIdle
    /\ workflowRuns = WorkflowsIdle

\* Any store that respects the foreign keys documents.deal_id and
\* workflows.deal_id.
InitIsolation ==
    /\ deals \in PartialFns(MaxDealId, Firms)
    /\ documents \in PartialFns(MaxDocumentId, DOMAIN deals)
    /\ workflows \in PartialFns(MaxWorkflowId, DOMAIN deals)
    /\ isoLast = NoIsoRequest
    /\ now = Epoch
    /\ LinkIdle
    /\ JwtIdle
    /\ MoreIdle
    /\ LateIdle

NextIsolation ==
    \/ EnforceDealAccess
    \/ EnforceDocumentAccess
    \/ EnforceWorkflowAccess
    \/ EnforceFirmIsolation

SpecIsolation == InitIsolation /\ [][NextIsolation]_vars

InitLink == IsoIdle /\ now = Epoch /\ LinkIdle /\ JwtIdle /\ MoreIdle /\ LateIdle

\* The store and the mail service answer; the callers send well-formed
\* addresses, in either case.
Reliable == {TRUE}
IssueEmails == {EmailAUpper, EmailB}
VerifyEmails == {EmailA, EmailB}

\* SpecLink: requests of each kind arrive one after the other (one handler of
\* each kind, taking the next request when it has answered), while the clock
\* runs through the expiry of a link.
NextLink ==
    \/ RequestStart(1, IssueEmails, TRUE)
    \/ RequestDelete(1, Reliable)
    \/ RequestInsert(1, Reliable)
    \/ RequestSend(1, Reliable)
    \/ VerifyStart(1, VerifyEmails, {ShortToken}, Reliable, TRUE)
    \/ VerifyMark(1, Reliable)
    \/ VerifyUser(1, Reliable)
    \/ VerifyInsertUser(1, Reliable)
    \/ LinkTick

SpecLink == InitLink /\ [][NextLink]_vars

\* SpecLinkRace: two handlers of each kind run concurrently, one request each,
\* interleaved at every await; the clock stands still.
RaceEmails == {EmailA, EmailB}

NextLinkRace ==
    \/ \E i \in Issuers : RequestStart(i, RaceEmails, FALSE)
    \/ \E i \in Issuers : RequestDelete(i, Reliable)
    \/ \E i \in Issuers : RequestInsert(i, Reliable)
    \/ \E i \in Issuers : RequestSend(i, Reliable)
    \/ \E v \in Verifiers : VerifyStart(v, RaceEmails, {JunkToken}, Reliable, FALSE)
    \/ \E v \in Verifiers : VerifyMark(v, Reliable)
    \/ \E v \in Verifiers : VerifyUser(v, Reliable)
    \/ \E v \in Verifiers : VerifyInsertUser(v, Reliable)

SpecLinkRace == InitLink /\ [][NextLinkRace]_vars

InitJwt == IsoIdle /\ now = Epoch /\ LinkIdle /\ JwtIdle /\ MoreIdle /\ LateIdle

\* SpecJwt: tokens are made and verified under the server's secret and under
\* another one.
Secrets == {JWT_SECRET, OtherSecret}

NextJwt ==
    \/ CreateToken(Secrets)
    \/ VerifyToken(Secrets)
    \/ JwtTick

SpecJwt == InitJwt /\ [][NextJwt]_vars

\* SpecAuth: requests through authenticate with what callers make of the
\* tokens the server issued.
NextAuth ==
    \/ CreateToken({JWT_SECRET})
    \/ Authenticate
    \/ JwtTick

SpecAuth == InitJwt /\ [][NextAuth]_vars

\* SpecRoutes: one request, with or without a session, through a resource
\* route.  The rows up to the bounds exist, each deal with either firm and
\* each document and workflow under any deal; the ids above them name no
\* row.  The caller's rate limit counter is absent or at the limit of every
\* class.
FullCounter ==
    LET key == rateLimitKey(RATE_LIMITS.DOWNLOAD, SignedIn(RouteClaims.user_id))
        resetAt == (Epoch \div 1000) + RATE_LIMITS.DOWNLOAD.windowSeconds
    IN  [k \in {key} |->
            [value |-> [count |-> RATE_LIMITS.DOWNLOAD.limit, resetAt |-> resetAt],
             expiration |-> resetAt]]

InitRoutes ==
    /\ deals \in [1..MaxDealId -> Firms]
    /\ documents \in [1..MaxDocumentId -> DOMAIN deals]
    /\ workflows \in [1..MaxWorkflowId -> DOMAIN deals]
    /\ isoLast = NoIsoRequest
    /\ now = Epoch
    /\ LinkIdle
    /\ jwtIssued = {RouteSession}
    /\ jwtLast = NoVerify
    /\ authLast = NoAuth
    /\ routeReq = NoRouteRequest
    /\ SESSIONS \in {<<>>, FullCounter}
    /\ limiter = [p \in Limiters |-> LimiterIdle]
    /\ limitLog = <<>>
    /\ LateIdle

NextRoutes ==
    \/ RouteArrive
    \/ RouteAuthenticate
    \/ RouteRateLimit
    \/ RouteEnforce
    \/ RouteValidate
    \/ RouteHandler

SpecRoutes == InitRoutes /\ [][NextRoutes]_vars

\* The instants of a clock that runs through a one-hour window opened at
\* Epoch: its last second, the instant it ends, and a second later.
HourTimes == {Epoch, Epoch + 3599000, Epoch + 3600000, Epoch + 3601000}
HourTick ==
    /\ \E t \in HourTimes : t > now /\ now' = t
    /\ UNCHANGED <<isoVars, linkVars, jwtVars, moreVars, lateVars>>

Unreliable == BOOLEAN
LimitCallers == {SignedIn(1), Anonymous(IpA, <<>>)}

\* SpecLimits: calls one after the other, while the clock runs through the
\* hour, to one of the two limiters: rateLimit with three calls an hour over a
\* store that answers, or POST /auth/request-magic-link behind authRateLimit,
\* where the database and the mail service may fail.
NextLimits ==
    \/ issuer[1].pc = "idle"
          /\ RateLimitGet(1, {"HOURLY3"}, LimitCallers, Reliable, TRUE)
    \/ RateLimitPut(1, Reliable)
    \/ limitLog = <<>> /\ limiter[1].pc = "idle"
          /\ RequestStart(1, IssueEmails, TRUE)
    \/ RequestDelete(1, Unreliable)
    \/ RequestInsert(1, Unreliable)
    \/ RequestSend(1, Unreliable)
    \/ HourTick

SpecLimits == InitLink /\ [][NextLimits]_vars

\* SpecLimiterRace: two invocations of rateLimit at a time, interleaved at
\* their awaits; the store answers.
NextLimiterRace ==
    \/ \E p \in Limiters : RateLimitGet(p, {"HOURLY3"}, LimitCallers, Reliable, TRUE)
    \/ \E p \in Limiters : RateLimitPut(p, Reliable)

SpecLimiterRace == InitLink /\ [][NextLimiterRace]_vars

\* SpecLimiterClasses: calls one after the other under the limit classes of
\* the upload, download and workflow routes, by a signed-in caller and by an
\* anonymous one whose forwarded address reads 'user:1'.
ClassCallers == {SignedIn(1), Anonymous(<<>>, T_user \o ToDigits(1))}
NextLimiterClasses ==
    \/ RateLimitGet(1, {"UPLOAD", "DOWNLOAD", "WORKFLOW"}, ClassCallers, Reliable, TRUE)
    \/ RateLimitPut(1, Reliable)

SpecLimiterClasses == InitLink /\ [][NextLimiterClasses]_vars

\* SpecLimiterFaults: calls to rateLimit one after the other over a store
\* whose get and put may throw.
NextLimiterFaults ==
    \/ RateLimitGet(1, {"HOURLY3"}, LimitCallers, Unreliable, TRUE)
    \/ RateLimitPut(1, Unreliable)

SpecLimiterFaults == InitLink /\ [][NextLimiterFaults]_vars

\* SpecLimiterPair: the same attempts, one after the other, go to both
\* limiters: request-magic-link behind authRateLimit is called with a text as
\* email (which the validator turns away once the limiter has let it through)
\* and rateLimit, three calls an hour, by the anonymous caller whose address
\* is that text; the store answers.
PairKeys == {<<97>>, <<98>>}                                      \* 'a', 'b'
PairArrive ==
    /\ issuer[1].pc = "done" /\ limiter[1].pc = "done"
    /\ Len(limitLog) < MaxCalls
    /\ \E t \in HourTimes : t >= now /\ now' = t
    /\ issuer' = [issuer EXCEPT ![1] = IssuerIdle]
    /\ limiter' = [limiter EXCEPT ![1] = LimiterIdle]
    /\ UNCHANGED <<magicLinkTokens, users, nextRowId, rateLimitMap, mailbox,
                   verifier, consumed>>
    /\ UNCHANGED <<routeReq, SESSIONS, limitLog>>
    /\ UNCHANGED <<isoVars, jwtVars, lateVars>>

NextLimiterPair ==
    \/ RequestStart(1, PairKeys, FALSE)
    \/ issuer[1].pc = "done"
          /\ RateLimitGet(1, {"HOURLY3"}, {Anonymous(issuer[1].email, <<>>)},
                          Reliable, FALSE)
    \/ RateLimitPut(1, Reliable)
    \/ PairArrive

SpecLimiterPair == InitLink /\ [][NextLimiterPair]_vars

\* SpecWorkflows: workflows are created and executed, one execute request
\* after the other, while the executions started earlier go on in the
\* background; the database may throw at each await.
NextWorkflows ==
    \/ StartAnalysisInsert
    \/ ExecuteSelect(Unreliable)
    \/ ExecuteUpdate(Unreliable)
    \/ ExecuteReturn(Unreliable)
    \/ TaskComplete(Unreliable)
    \/ TaskFail(Unreliable)
    \/ TaskDropped

SpecWorkflows == InitLink /\ [][NextWorkflows]_vars

\* SpecWorkflowsFair: the same, where a handler that can go on does so and a
\* pending promise that is still there is settled.
ExecuteGoesOn == ExecuteUpdate(Unreliable) \/ ExecuteReturn(Unreliable)
TaskGoesOn == TaskComplete(Unreliable) \/ TaskFail(Unreliable)

SpecWorkflowsFair ==
    SpecWorkflows /\ WF_vars(ExecuteGoesOn) /\ WF_vars(TaskGoesOn)

\* SpecClient: the page sends its requests through axiosInstance; the server
\* answers each of them, and each refresh, one way or the other.
ServerAnswers ==
    \E r \in ReqIds : Respond200(r) \/ RespondError(r) \/ Respond401(r)
RefreshAnswers == \E r \in ReqIds : RefreshSucceeds(r) \/ RefreshFails(r)
Microtasks == \E r \in ReqIds : QueuedResumes(r)

NextClient ==
    \/ ClientLoad(BOOLEAN, BOOLEAN)
    \/ \E r \in ReqIds : ClientSend(r)
    \/ ServerAnswers
    \/ RefreshAnswers
    \/ Microtasks
    \/ PageUnloads

SpecClient == InitLink /\ [][NextClient]_vars

\* SpecClientFair: every request and every refresh gets its answer in the end,
\* continuations run and a navigation takes place.
SpecClientFair ==
    /\ SpecClient
    /\ WF_vars(ServerAnswers) /\ WF_vars(RefreshAnswers)
    /\ WF_vars(Microtasks) /\ WF_vars(PageUnloads)

\* SpecLinkFaults: links are requested and verified one request after the
\* other while the database may throw at each await of verify-magic-link.
NextLinkFaults ==
    \/ RequestStart(1, IssueEmails, TRUE)
    \/ RequestDelete(1, Reliable)
    \/ RequestInsert(1, Reliable)
    \/ RequestSend(1, Reliable)
    \/ VerifyStart(1, VerifyEmails, {ShortToken}, Unreliable, TRUE)
    \/ VerifyMark(1, Unreliable)
    \/ VerifyUser(1, Unreliable)
    \/ VerifyInsertUser(1, Unreliable)

SpecLinkFaults == InitLink /\ [][NextLinkFaults]_vars

\* SpecTenants: two people without a users row sign in by magic link, each
\* through a client of their own; the first creates deals with the session,
\* the second asks for deals with theirs.
TenantEmails == {EmailA, EmailC}

NextTenants ==
    \/ RequestStart(1, TenantEmails, TRUE)
    \/ RequestDelete(1, Reliable)
    \/ RequestInsert(1, Reliable)
    \/ RequestSend(1, Reliable)
    \/ VerifyStart(1, {EmailA}, {}, Reliable, FALSE)
    \/ VerifyStart(2, {EmailC}, {}, Reliable, FALSE)
    \/ \E v \in Verifiers : VerifyMark(v, Reliable)
    \/ \E v \in Verifiers : VerifyUser(v, Reliable)
    \/ \E v \in Verifiers : VerifyInsertUser(v, Reliable)
    \/ SessionArrive(1, {"POST /api/deals"})
    \/ SessionArrive(2, {"GET /api/deals/:id"})
    \/ SessionAuthenticate
    \/ PostDeal(BOOLEAN, Unreliable)
    \/ GetDeal(Unreliable)

SpecTenants == InitLink /\ [][NextTenants]_vars

\* SpecRefresh: a@x.io signs in by magic link at Epoch and the client then
\* calls POST /auth/refresh with the tokens it holds, as the days pass.
NextRefresh ==
    \/ RequestStart(1, {EmailA}, FALSE)
    \/ RequestDelete(1, Reliable)
    \/ RequestInsert(1, Reliable)
    \/ RequestSend(1, Reliable)
    \/ VerifyStart(1, {EmailA}, {}, Reliable, FALSE)
    \/ VerifyMark(1, Reliable)
    \/ VerifyUser(1, Reliable)
    \/ VerifyInsertUser(1, Reliable)
    \/ RefreshArrive
    \/ RefreshVerify
    \/ RefreshSign
    \/ RefreshRespond
    \/ RefreshTick

SpecRefresh == InitLink /\ [][NextRefresh]_vars

(***************************************************************************)
(* Properties: tenant isolation                                            *)
(***************************************************************************)
\* The firm ids of the deal a resource hangs from, read off the tables.
OwnerFirms(kind, id) ==
    LET owning ==
            IF kind = "deal" THEN {id} \cap DOMAIN deals
            ELSE IF kind = "document" THEN
                {documents[x] : x \in {id} \cap DOMAIN documents}
            ELSE IF kind = "workflow" THEN
                {workflows[x] : x \in {id} \cap DOMAIN workflows}
            ELSE {}
    IN  {deals[d] : d \in owning}

\* C1: through each of the four middlewares the handler runs only if the
\* resource exists and its owning deal's firm_id is the caller's; when the
\* lookup answers for a signed-in caller, an existing resource of another
\* firm gives 403 and a nonexistent one 404, the handler not running.
C1_FirmIsolation ==
    LET r == isoLast
        owners == OwnerFirms(r.kind, parseInt(r.param))
        answered == /\ r.mw # "none" /\ r.user # NoUser /\ r.param # <<>> /\ r.dbOk
                    /\ r.kind \in {"deal", "document", "workflow"}
    IN  /\ r.resp.handlerRan => r.user # NoUser /\ owners = {r.user.firm_id}
        /\ answered /\ owners # {} /\ owners # {r.user.firm_id}
              => r.resp.status = 403 /\ ~r.resp.handlerRan
        /\ answered /\ owners = {} => r.resp.status = 404 /\ ~r.resp.handlerRan

\* A caller of firm B asks for a document that exists under a deal of firm A
\* and is answered 403.
C1_Witness ==
    /\ isoLast.kind = "document" /\ isoLast.resp.status = 403
    /\ isoLast.user.firm_id = FirmB
    /\ OwnerFirms("document", parseInt(isoLast.param)) = {FirmA}

\* C12: the isolation middlewares answer a request for a resource of another
\* firm exactly as they answer the same request over the store without that
\* resource, where the lookup returns no row.
C12_SameResponse ==
    LET r == isoLast
        owners == OwnerFirms(r.kind, parseInt(r.param))
        answered == /\ r.mw # "none" /\ r.user # NoUser /\ r.param # <<>> /\ r.dbOk
                    /\ r.kind \in {"deal", "document", "workflow"}
    IN  answered /\ owners # {} /\ owners # {r.user.firm_id}
            => r.resp = FirmDecision({}, r.user)

(***************************************************************************)
(* Properties: magic links                                                 *)
(***************************************************************************)
\* A step in which handler v takes a verify-magic-link request and runs it up
\* to its first answer or to the update.
StartsVerify(v) ==
    /\ verifier[v].pc \in {"idle", "done"}
    /\ verifier'[v] # verifier[v]

\* The rows the request of record req is about.
RowsFor(req) ==
    {r \in magicLinkTokens :
        r.email = req.email /\ r.token_hash = hashToken(req.token)}

Failed(req, error) ==
    /\ req.pc = "done" /\ req.status = 401 /\ req.error = error
    /\ req.accessToken = NoToken /\ req.refreshToken = NoToken

\* generateToken hands the pool out in order: t was generated before u.
IssuedBefore(t, u) == t[TOKEN_LENGTH] < u[TOKEN_LENGTH]

\* C2: of the verify-link requests that carry the same valid (email, token),
\* in any interleaving, at most one returns session tokens.
C2_AtMostOneSession ==
    \A v, w \in Verifiers :
        (/\ v # w
         /\ verifier[v].status = 200 /\ verifier[w].status = 200
         /\ verifier[v].email = verifier[w].email)
        => verifier[v].token # verifier[w].token

\* C3 as stated: once verify-link has returned tokens for (email, token), every
\* later verify-link with that pair fails with LinkAlreadyUsed.
C3_AlwaysLinkAlreadyUsed ==
    [][\A v \in Verifiers :
          (StartsVerify(v) /\ <<verifier'[v].email, verifier'[v].token>> \in consumed)
          => Failed(verifier'[v], MSG_USED)]_vars

\* C3, amended: once verify-link has returned tokens for (email, token), no
\* later verify-link with that pair returns tokens; it fails with
\* LinkAlreadyUsed as long as the row is stored and now <= expiresAt.
C3_NoSecondSession ==
    [][\A v \in Verifiers :
          (StartsVerify(v) /\ <<verifier'[v].email, verifier'[v].token>> \in consumed)
          => /\ \E error \in {MSG_INVALID, MSG_EXPIRED, MSG_USED} :
                    Failed(verifier'[v], error)
             /\ (\E r \in RowsFor(verifier'[v]) : now <= r.expires_at)
                    => Failed(verifier'[v], MSG_USED)]_vars

\* A pair that has returned tokens is presented again within the expiry
\* window and answered LinkAlreadyUsed.
C3_Witness ==
    \E v \in Verifiers :
        /\ <<verifier[v].email, verifier[v].token>> \in consumed
        /\ Failed(verifier[v], MSG_USED)
        /\ \E r \in RowsFor(verifier[v]) : now <= r.expires_at

\* The rows of an email, and those of them a verify-link would still accept.
RowsOf(email) == {r \in magicLinkTokens : r.email = email}
UsableRows(email) ==
    {r \in RowsOf(email) : r.used_at = Null /\ ~(now > r.expires_at)}

\* C4: request-link calls that do not overlap.  When a second (or later)
\* request-link for E completes, E has exactly one row, the one this request
\* inserted, unused and with its own expiry; and from then on verify-link with
\* E and the token of an earlier request fails with InvalidLink.
C4_LatestLinkOnly ==
    [][/\ \A i \in Issuers :
            (/\ issuer[i].pc = "send" /\ issuer'[i].pc = "done"
             /\ \E m \in mailbox : m[1] = issuer[i].email)
            => \E r \in magicLinkTokens' :
                   /\ {x \in magicLinkTokens' : x.email = issuer[i].email} = {r}
                   /\ r.token_hash = hashToken(issuer[i].token)
                   /\ r.used_at = Null
                   /\ r.expires_at = issuer[i].expiresAt
       /\ \A v \in Verifiers :
            (/\ StartsVerify(v)
             /\ <<verifier'[v].email, verifier'[v].token>> \in mailbox
             /\ \E m \in mailbox :
                    m[1] = verifier'[v].email /\ IssuedBefore(verifier'[v].token, m[2]))
            => Failed(verifier'[v], MSG_INVALID)]_vars

\* After two request-links for one email, the first token is presented and
\* answered InvalidLink while the second link's row is the email's only row,
\* unused and unexpired.
C4_Witness ==
    \E v \in Verifiers, m \in mailbox :
        /\ <<verifier[v].email, verifier[v].token>> \in mailbox
        /\ m[1] = verifier[v].email /\ IssuedBefore(verifier[v].token, m[2])
        /\ Failed(verifier[v], MSG_INVALID)
        /\ \E r \in UsableRows(m[1]) :
               RowsOf(m[1]) = {r} /\ r.token_hash = hashToken(m[2])

\* C5: in every reachable state, whatever the interleaving of the delete and
\* insert steps of concurrent request-links, an email has at most one unused,
\* unexpired row.
C5_AtMostOneUsableRow ==
    \A r \in magicLinkTokens : Cardinality(UsableRows(r.email)) <= 1

\* C6: verify-link for a well-formed (E, token) goes by the row with email E
\* and the token's hash: none gives InvalidLink, now > expiresAt LinkExpired,
\* else a non-null usedAt LinkAlreadyUsed, else the request goes on to return
\* session tokens, and only such a request returns them; expiresAt is the
\* issue time plus 15 minutes.
C6_VerifyOutcome ==
    [][/\ \A v \in Verifiers :
            (StartsVerify(v) /\ verifier'[v].status # 400)
            => LET req == verifier'[v] IN
               /\ RowsFor(req) = {} => Failed(req, MSG_INVALID)
               /\ \A r \in RowsFor(req) :
                    /\ now > r.expires_at => Failed(req, MSG_EXPIRED)
                    /\ (now <= r.expires_at /\ r.used_at # Null)
                          => Failed(req, MSG_USED)
                    /\ (now <= r.expires_at /\ r.used_at = Null)
                          => req.pc = "mark" /\ req.storedToken = r
       /\ \A v \in Verifiers :
            /\ (verifier[v].pc \in {"mark", "user", "insertUser"}
                    /\ verifier'[v].pc = "done")
               => /\ verifier'[v].status = 200
                  /\ verifier'[v].accessToken # NoToken
                  /\ verifier'[v].refreshToken # NoToken
            /\ (verifier'[v].status = 200 /\ verifier'[v] # verifier[v])
               => verifier[v].pc \in {"user", "insertUser"}
       /\ \A i \in Issuers :
            /\ (issuer[i].pc = "delete" /\ issuer'[i].pc = "insert")
               => issuer'[i].expiresAt = now + 900000
            /\ (issuer[i].pc = "insert" /\ issuer'[i].pc = "send")
               => \E r \in magicLinkTokens' \ magicLinkTokens :
                      /\ r.email = issuer[i].email
                      /\ r.token_hash = hashToken(issuer[i].token)
                      /\ r.expires_at = issuer[i].expiresAt]_vars

\* A link is presented exactly 15 minutes after its issue, unused, and the
\* request goes on to the update.
C6_Witness ==
    \E v \in Verifiers :
        /\ verifier[v].pc = "mark"
        /\ verifier[v].storedToken.expires_at = now
        /\ now = Epoch + 900000

(***************************************************************************)
(* Properties: session tokens and authenticate                             *)
(***************************************************************************)
Genuine == <<"shape", "genuine", "">>

\* The exp createToken was asked for, in seconds.
ExpOf(j) == j.at \div 1000 + j.minutes * 60

\* C7: verifyToken returns claims only for a token whose third segment is
\* the HMAC of its 'header.payload' under the verifier's secret; a token of
\* createToken whose payload segment was altered by somebody without that
\* secret fails with InvalidSignature.
C7_SignatureChecked ==
    LET c == jwtLast
        parts == Split(c.token, 46)
    IN  /\ c.result.ok =>
              /\ Len(parts) = 3
              /\ parts[3] = sign(parts[1] \o <<46>> \o parts[2], c.secret)
        /\ \A j \in jwtIssued :
              (/\ c.source = j.token /\ c.secret = j.secret
               /\ c.how[1] = "tamper"
               /\ ~(c.how[3] = "other" /\ c.secret = OtherSecret))
              => ~c.result.ok /\ c.result.error = "Invalid signature"

\* The last character of the payload segment is changed under the old
\* signature, and the server's verifyToken answers InvalidSignature.
C7_Witness ==
    /\ jwtLast.how = <<"tamper", "lastChar", "kept">>
    /\ jwtLast.secret = JWT_SECRET
    /\ Split(jwtLast.token, 46)[2] # Split(jwtLast.source, 46)[2]
    /\ Split(jwtLast.token, 46)[3] = Split(jwtLast.source, 46)[3]
    /\ jwtLast.result.error = "Invalid signature"

\* C8 as stated: a correctly signed token is accepted exactly while
\* now < expiresAt and rejected with TokenExpired from expiresAt onward.
C8_RejectedFromExpiry ==
    \A j \in jwtIssued :
        (jwtLast.source = j.token /\ jwtLast.how = Genuine /\ jwtLast.secret = j.secret)
        => (jwtLast.result.ok <=> now \div 1000 < ExpOf(j))

\* C8, amended: a correctly signed token is accepted exactly while the
\* current second is at most exp, the second of exp included, is rejected
\* with TokenExpired after it, and once expired is not accepted again.
C8_AcceptedThroughExp ==
    [][\A j \in jwtIssued' :
          (/\ jwtLast'.source = j.token /\ jwtLast'.how = Genuine
           /\ jwtLast'.secret = j.secret)
          => /\ jwtLast'.result.ok <=> now' \div 1000 <= ExpOf(j)
             /\ ~jwtLast'.result.ok => jwtLast'.result.error = "Token expired"
             /\ now \div 1000 > ExpOf(j) => ~jwtLast'.result.ok]_vars

\* A 60-minute token is verified in the very second of its exp and accepted.
C8_Witness ==
    \E j \in jwtIssued :
        /\ jwtLast.source = j.token /\ jwtLast.how = Genuine
        /\ jwtLast.secret = j.secret /\ j.minutes = 60
        /\ now \div 1000 = ExpOf(j)
        /\ jwtLast.result.ok

\* C9: verifyToken(createToken(claims, secret, minutes), secret) before
\* expiry returns the user_id, firm_id, email and role issued, iat the issue
\* time in seconds and exp = iat + minutes * 60 (3600 for 60 minutes).
C9_RoundTrip ==
    \A j \in jwtIssued :
        (/\ jwtLast.source = j.token /\ jwtLast.how = Genuine
         /\ jwtLast.secret = j.secret
         /\ now \div 1000 < ExpOf(j))
        => LET p == jwtLast.result.payload IN
           /\ jwtLast.result.ok
           /\ p.user_id = j.claims.user_id /\ p.firm_id = j.claims.firm_id
           /\ p.email = j.claims.email /\ p.role = j.claims.role
           /\ p.iat = j.at \div 1000
           /\ p.exp = p.iat + j.minutes * 60
           /\ j.minutes = 60 => p.exp = p.iat + 3600

\* A 60-minute token made under the other secret, not on a whole second, for
\* a user without a firm, comes back from verifyToken under that secret.
C9_Witness ==
    \E j \in jwtIssued :
        /\ jwtLast.source = j.token /\ jwtLast.how = Genuine
        /\ jwtLast.secret = j.secret /\ j.secret = OtherSecret
        /\ j.minutes = 60 /\ j.at % 1000 # 0 /\ j.claims.firm_id = NoFirm
        /\ jwtLast.result.ok
        /\ jwtLast.result.payload.exp = j.at \div 1000 + 3600

\* C10: authenticate runs the handler only for a header that starts with
\* 'Bearer ' and whose token passes verifyToken; with the header absent or
\* malformed, or the token malformed, wrongly signed or expired, the answer
\* is 401 and the handler does not run.
C10_AuthenticateGate ==
    LET a == authLast IN
    a.scheme # "none" =>
        /\ a.resp.handlerRan =>
              /\ StartsWith(a.header, BEARER)
              /\ verifyToken(StripPrefix(a.header, BEARER), JWT_SECRET, now).ok
              /\ a.scheme = "Bearer " /\ a.how = Genuine
              /\ \E j \in jwtIssued :
                     /\ j.token = a.source /\ now \div 1000 <= ExpOf(j)
                     /\ a.resp.user = j.claims
        /\ ~a.resp.handlerRan => a.resp.status = 401
        /\ (\/ a.scheme # "Bearer "
            \/ a.how # Genuine
            \/ \E j \in jwtIssued : j.token = a.source /\ now \div 1000 > ExpOf(j))
           => ~a.resp.handlerRan

\* A request with 'Bearer ' and an unexpired token of the server reaches the
\* handler as the user the token names.
C10_Witness ==
    /\ authLast.scheme = "Bearer "
    /\ authLast.resp.handlerRan
    /\ authLast.resp.user.firm_id = FirmA

(***************************************************************************)
(* Properties: the resource routes                                         *)
(***************************************************************************)
IsolationMiddlewares ==
    {"enforceDealAccess", "enforceDocumentAccess", "enforceWorkflowAccess"}

\* C11: on every resource route the isolation check runs after the session
\* was verified and before the handler: a request whose handler read or wrote
\* a row carried a session that authenticate accepted, went through
\* authenticate first and through the route's isolation middleware before the
\* handler (request-upload, which names its deal in the body, looks the deal
\* up under the caller's firm inside the handler), and every row it read or
\* wrote belonged to a deal of the caller's firm.
C11_IsolationBeforeAccess ==
    routeReq.touched # {} =>
        /\ routeReq.auth = "genuine"
        /\ routeReq.user = CtxUser(RouteClaims)
        /\ routeReq.ran[1] = "authenticate"
        /\ routeReq.ran[Len(routeReq.ran)] = "handler"
        /\ \/ routeReq.route = "POST /api/documents/request-upload"
           \/ \E i \in 2..(Len(routeReq.ran) - 1) :
                  routeReq.ran[i] \in IsolationMiddlewares
        /\ \A i \in 1..(Len(routeReq.ran) - 1) : routeReq.ran[i] # "handler"
        /\ \A t \in routeReq.touched : t.firm = RouteClaims.firm_id

\* A workflow of the caller's firm was executed, behind rateLimit and
\* enforceDealAccess.
C11_Witness ==
    /\ routeReq.route =
           "POST /api/deals/:dealId/analysis/workflows/:workflowId/execute"
    /\ \E t \in routeReq.touched : t.op = "update" /\ t.kind = "workflow"
    /\ routeReq.ran =
           <<"authenticate", "rateLimit", "enforceDealAccess", "handler">>

(***************************************************************************)
(* Properties: the rate limiters                                           *)
(***************************************************************************)
\* The calls before call i that were allowed under the same key and counted
\* in window w.
AllowedBefore(i, w) ==
    {j \in 1..(i - 1) :
        /\ limitLog[j].key = limitLog[i].key
        /\ limitLog[j].outcome = "Allowed"
        /\ limitLog[j].window = w}

\* The windows opened under the key of call i before it.
WindowsBefore(i) ==
    {limitLog[j].window : j \in {k \in 1..(i - 1) :
        limitLog[k].key = limitLog[i].key /\ limitLog[k].outcome = "Allowed"}}

\* rateLimit with limit 3 and a window of 3600 s: a call at second t is
\* rejected exactly when a window of its key is open (t < resetAt) and three
\* calls were allowed in it; otherwise it is allowed, inside the open window
\* or, when none is open, as the first call of a window that ends at t + 3600.
HourlyLimitOnLog ==
    \A i \in 1..Len(limitLog) :
        LET e == limitLog[i]
            open == {w \in WindowsBefore(i) : e.at < w}
        IN  /\ e.class = "HOURLY3"
            /\ Cardinality(open) <= 1
            /\ e.outcome \in {"Allowed", "RateLimited"}
            /\ e.outcome = "RateLimited" <=>
                   \E w \in open : Cardinality(AllowedBefore(i, w)) = 3
            /\ e.outcome = "RateLimited" => e.window \in open
            /\ e.outcome = "Allowed" =>
                   IF open = {} THEN e.window = e.at + 3600
                   ELSE e.window \in open
                        /\ Cardinality(AllowedBefore(i, e.window)) < 3

\* The counter holds the number of calls allowed in its window.
HourlyCounter ==
    \A i \in 1..Len(limitLog) :
        (limitLog[i].outcome = "Allowed"
         /\ \A j \in (i + 1)..Len(limitLog) : limitLog[j].key # limitLog[i].key
                                              \/ limitLog[j].outcome # "Allowed")
            => SESSIONS[limitLog[i].key].value =
                  [count |-> Cardinality(AllowedBefore(i, limitLog[i].window)) + 1,
                   resetAt |-> limitLog[i].window]

\* A request-magic-link call has just gone through authRateLimit.
LinkLimited ==
    /\ issuer[1].pc \in {"idle", "done"}
    /\ issuer'[1] # issuer[1]

\* authRateLimit: three calls per email per hour.  A call inside the window of
\* its email (now < resetAt) is answered 429 when three were counted and is
\* counted otherwise; a call for an email without a window, or after the
\* window (now > resetAt), passes and opens a window of 3600 s with count 1.
HourlyLimitOnLink ==
    LinkLimited =>
        LET email == issuer'[1].email
            known == email \in DOMAIN rateLimitMap
            before == rateLimitMap[email]
            after == rateLimitMap'[email]
        IN  /\ (known /\ now < before.resetAt /\ before.count >= 3)
                    => issuer'[1].status = 429 /\ rateLimitMap' = rateLimitMap
            /\ (known /\ now < before.resetAt /\ before.count < 3)
                    => /\ issuer'[1].status # 429
                       /\ after = [before EXCEPT !.count = @ + 1]
            /\ (~known \/ now > before.resetAt)
                    => /\ issuer'[1].status # 429
                       /\ after = [count |-> 1, resetAt |-> now + 3600 * 1000]
            /\ \A e \in DOMAIN rateLimitMap \ {email} :
                   rateLimitMap'[e] = rateLimitMap[e]

C14_NeverOverLimit ==
    \A i \in 1..Len(limitLog) :
        limitLog[i].outcome = "Allowed" =>
            Cardinality(AllowedBefore(i, limitLog[i].window)) + 1
                <= LimitConfigs[limitLog[i].class].limit

\* C15: counters are kept per limit class and caller: two calls under
\* different classes never use the same counter, and the counter of a
\* signed-in caller is never that of an anonymous one.
C15_SeparateCounters ==
    \A i, j \in 1..Len(limitLog) :
        /\ limitLog[i].class # limitLog[j].class
               => limitLog[i].key # limitLog[j].key
        /\ (limitLog[i].caller.user_id # 0 /\ limitLog[j].caller.user_id = 0)
               => limitLog[i].key # limitLog[j].key

\* C16: every rate limit rejection is a 429 with a Retry-After header and a
\* retry_after body field, both windowResetAt - now in seconds and positive:
\* those of rateLimit and those of authRateLimit in front of
\* request-magic-link.
C16_RetryAfterOn429 ==
    /\ limiter[1].resp.status = 429 =>
           LET e == limitLog[Len(limitLog)] IN
           /\ "Retry-After" \in DOMAIN limiter[1].resp.headers
           /\ parseInt(limiter[1].resp.headers["Retry-After"]) = e.window - e.at
           /\ limiter[1].resp.body.retry_after = e.window - e.at
           /\ e.window - e.at > 0
    /\ issuer[1].status = 429 =>
           /\ "Retry-After" \in DOMAIN issuer[1].headers
           /\ "retry_after" \in DOMAIN issuer[1].body
           /\ issuer[1].body.retry_after > 0
           /\ parseInt(issuer[1].headers["Retry-After"]) = issuer[1].body.retry_after

\* C17: when the get or the put of the rate limit store throws, the request
\* is let through: it is not answered 429 and the downstream handler has
\* run exactly once (its response is the request's); in no call does the
\* handler run twice.
C17_FailsOpen ==
    /\ limiter[1].nextCalls <= 1
    /\ (limiter[1].pc = "done" /\ limiter[1].storeFailed) =>
           /\ limiter[1].nextCalls = 1
           /\ limiter[1].resp = [status |-> 200]
           /\ limitLog[Len(limitLog)].outcome = "StoreFailed"

\* The store failed for a caller whose counter stood at the limit, and the
\* request went through.
C17_Witness ==
    /\ limiter[1].pc = "done" /\ limiter[1].storeFailed
    /\ limiter[1].nextCalls = 1
    /\ limiter[1].key \in DOMAIN SESSIONS
    /\ SESSIONS[limiter[1].key].value.count = 3

(***************************************************************************)
(* Properties: what request-link answers and what it touches               *)
(***************************************************************************)
GenericSuccess ==
    [success |-> TRUE, message |-> "Check your email for your login link"]

\* The request of issuer i got past the limiter and the schema.
PassedLimiter(i) ==
    issuer[i].pc = "done" /\ issuer[i].status \notin {429, 400}

\* C18: every request-link with a valid email that passes the rate limiter is
\* answered 200 with {success: true, message}, the same answer whether the
\* delete, the insert and the email dispatch succeeded or one of them failed.
C18_AlwaysGenericSuccess ==
    \A i \in Issuers :
        PassedLimiter(i)
        => /\ issuer[i].status = 200
           /\ issuer[i].headers = NoHeaders
           /\ issuer[i].body = GenericSuccess

\* A request answered 200 although nothing was mailed to its address.
C18_Witness ==
    /\ PassedLimiter(1)
    /\ issuer[1].body = GenericSuccess
    /\ \A m \in mailbox : m[1] # issuer[1].email

\* The handler of issuer i takes a step.
RequestStep(i) == issuer'[i] # issuer[i]

HasIdentity(email) == \E u \in users : u.email = email

\* What a request-link step does when the store and the mail service answer,
\* written without the users table: the delete empties the address's rows,
\* the insert adds the row of the new token, the send mails the token and
\* answers the generic success.
IdentityBlindStep(i) ==
    LET req == issuer[i] IN
    /\ req.pc = "delete"
       => /\ issuer'[i].pc = "insert"
          /\ magicLinkTokens' = {r \in magicLinkTokens : r.email # req.email}
          /\ mailbox' = mailbox
    /\ req.pc = "insert"
       => /\ issuer'[i].pc = "send"
          /\ magicLinkTokens' = magicLinkTokens \cup
                {[id |-> nextRowId, email |-> req.email,
                  token_hash |-> hashToken(req.token),
                  expires_at |-> req.expiresAt, used_at |-> Null]}
          /\ mailbox' = mailbox
    /\ req.pc = "send"
       => /\ issuer'[i].pc = "done"
          /\ issuer'[i].status = 200
          /\ issuer'[i].body = GenericSuccess
          /\ magicLinkTokens' = magicLinkTokens
          /\ mailbox' = mailbox \cup {<<req.email, req.token>>}

\* C19: request-link never reads or writes the users table: each of its steps
\* leaves the table as it was, and the response and the changes to the link
\* rows are the same for an address with a users row as for one without.
C19_IdentityBlind ==
    [][\A i \in Issuers :
          RequestStep(i) => (users' = users /\ IdentityBlindStep(i))]_vars

\* request-link has stored a row and mailed its token both for an address
\* with a users row and for one without, and has just answered the latter.
LinkPending(email) ==
    \E r \in magicLinkTokens, m \in mailbox :
        /\ r.email = email /\ m[1] = email
        /\ r.token_hash = hashToken(m[2]) /\ r.used_at = Null

C19_Witness ==
    /\ issuer[1].pc = "done" /\ issuer[1].body = GenericSuccess
    /\ ~HasIdentity(issuer[1].email)
    /\ LinkPending(issuer[1].email)
    /\ \E u \in users : LinkPending(u.email)

(***************************************************************************)
(* Properties: the users rows verify-link creates                          *)
(***************************************************************************)
IdentitiesOf(email) == {u \in users : u.email = email}

\* One users row for every verified address, never two for one address.
OneIdentityPerEmail ==
    /\ \A c \in consumed : Cardinality(IdentitiesOf(c[1])) = 1
    /\ \A u, w \in users : u.email = w.email => u = w

\* The request of verifier v is answered 200 in this step.
VerifySucceeds(v) == verifier[v].status # 200 /\ verifier'[v].status = 200

\* The 200 answer carries both tokens and the address's users row: the row
\* that was there, or else a new one, stored in this step.
IdentityCreatedOrReused(v) ==
    LET req == verifier'[v] IN
    /\ req.accessToken # NoToken /\ req.refreshToken # NoToken
    /\ req.user.email = req.email
    /\ IF IdentitiesOf(req.email) # {}
       THEN req.user \in users /\ users' = users
       ELSE users' = users \cup {req.user}

\* v, just answered 200, is asked again with the same address and token, in
\* the instant the row was marked used and within the link's lifetime.
ReverifiesAtOnce(v) ==
    /\ StartsVerify(v)
    /\ verifier[v].status = 200
    /\ verifier'[v].email = verifier[v].email
    /\ verifier'[v].token = verifier[v].token
    /\ \E r \in RowsFor(verifier[v]) : r.used_at = now /\ ~(now > r.expires_at)

\* C20: every address that verify-link has answered 200 for has exactly one
\* users row (created at the first success when there was none, reused at
\* later ones), no address has two, and no step removes or changes a users
\* row; a completed request-link leaves one unused row, the verification
\* returns both tokens with the users row, and verifying again at once fails
\* with LinkAlreadyUsed.
C20_OneIdentityKept ==
    /\ []OneIdentityPerEmail
    /\ [][/\ users \subseteq users'
          /\ \A v \in Verifiers :
                /\ VerifySucceeds(v) => IdentityCreatedOrReused(v)
                /\ ReverifiesAtOnce(v) => Failed(verifier'[v], MSG_USED)
          /\ \A i \in Issuers :
                (issuer[i].pc = "send" /\ issuer'[i].pc = "done")
                => \E r \in magicLinkTokens' :
                       /\ {x \in magicLinkTokens' : x.email = issuer[i].email} = {r}
                       /\ r.used_at = Null]_vars

\* The scenario has run for an address without a users row: its link was
\* verified, the row was created, and verifying again gave LinkAlreadyUsed.
C20_Witness ==
    /\ Failed(verifier[1], MSG_USED)
    /\ <<verifier[1].email, verifier[1].token>> \in consumed
    /\ verifier[1].email # SeedUser.email
    /\ \E u \in IdentitiesOf(verifier[1].email) : u.role = RoleConsultant

(***************************************************************************)
(* Properties: what a rateLimit call writes                                *)
(***************************************************************************)
\* The put of call p takes effect in this step.
PutLands(p) == limiter[p].pc = "put" /\ limiter'[p].pc = "done"

\* Call p is answered 429 in this step.
CallRejected(p) ==
    /\ limiter[p].pc \in {"idle", "done"}
    /\ limiter'[p] # limiter[p]
    /\ limiter'[p].resp.status = 429

\* The record call p read, at the second it read as now.
RecordRead(p) == KVGet(SESSIONS, limiter[p].key, limiter[p].at)

\* The write of an allowed call, from the record it read: count + 1 under the
\* same resetAt with the rest of the window as TTL when the window is open,
\* and {count: 1, resetAt: now + windowSeconds} with TTL windowSeconds when
\* there is no record or now >= resetAt.
WriteOfAllowedCall(p) ==
    LET rec == limiter[p]
        data == RecordRead(p)
        window == LimitConfigs[rec.class].windowSeconds
        stored == SESSIONS'[rec.key]
    IN  /\ stored.value = rec.put.value
        /\ stored.expiration = (now \div 1000) + rec.put.expirationTtl
        /\ \A k \in DOMAIN SESSIONS \ {rec.key} : SESSIONS'[k] = SESSIONS[k]
        /\ IF data = NoData \/ rec.at >= data.resetAt
           THEN /\ rec.put.value = [count |-> 1, resetAt |-> rec.at + window]
                /\ rec.put.expirationTtl = window
           ELSE /\ rec.put.value = [count |-> data.count + 1,
                                    resetAt |-> data.resetAt]
                /\ rec.put.expirationTtl = data.resetAt - rec.at

\* C22: an allowed call inside an open window writes count + 1, keeps resetAt
\* and gives the record the TTL resetAt - now; a rejected call leaves the
\* store as it was; {count: 1, resetAt: now + windowSeconds} is written only
\* when no record was read or now >= resetAt.
C22_CounterWrites ==
    [][\A p \in Limiters :
          /\ PutLands(p) => WriteOfAllowedCall(p)
          /\ CallRejected(p) => SESSIONS' = SESSIONS]_vars

\* Calls were allowed inside an open window with less than the whole window
\* left, the count stands at the limit and the last call has been rejected.
C22_Witness ==
    /\ limiter[1].pc = "done" /\ limiter[1].resp.status = 429
    /\ SESSIONS[limiter[1].key].value.count = 3
    /\ \E i \in 1..Len(limitLog) :
           /\ limitLog[i].outcome = "Allowed"
           /\ limitLog[i].key = limiter[1].key
           /\ limitLog[i].window < limitLog[i].at + 3600

(***************************************************************************)
(* Properties: the order of verifyToken's checks                           *)
(***************************************************************************)
\* The token of the last verifyToken call has three segments / a third
\* segment that is the HMAC of the first two under the verifier's secret.
ThreeParts(c) == Len(Split(c.token, 46)) = 3

RightlySigned(c) ==
    LET parts == Split(c.token, 46) IN
    ThreeParts(c) /\ parts[3] = sign(parts[1] \o <<46>> \o parts[2], c.secret)

\* The token the call started from had passed its exp when the call was made.
SourceExpired(c) ==
    \E j \in jwtIssued : c.source = j.token /\ now \div 1000 > ExpOf(j)

\* C23: verifyToken checks the format, then the signature, then the expiry.
\* A token that is not three dot-separated parts fails with 'Invalid token
\* format' and a token whose signature does not match fails with 'Invalid
\* signature', whether or not it is expired; 'Token expired' is the answer
\* only for a rightly signed token.
C23_FormatSignatureExpiry ==
    LET c == jwtLast IN
    c # NoVerify =>
        /\ ~ThreeParts(c)
           => ~c.result.ok /\ c.result.error = "Invalid token format"
        /\ (ThreeParts(c) /\ ~RightlySigned(c))
           => ~c.result.ok /\ c.result.error = "Invalid signature"
        /\ c.result.error = "Token expired" => RightlySigned(c)

\* A token past its exp, signed again with another secret, is presented to
\* the server and fails with 'Invalid signature'.
C23_Witness ==
    /\ jwtLast # NoVerify
    /\ SourceExpired(jwtLast)
    /\ jwtLast.how = <<"shape", "resigned", "">>
    /\ jwtLast.secret = JWT_SECRET
    /\ jwtLast.result.error = "Invalid signature"

(***************************************************************************)
(* Properties: verify-link when the database fails                         *)
(***************************************************************************)
\* The request of verifier v, past the lookup, is answered with an error in
\* this step.
VerifyErrorAfterLookup(v) ==
    /\ verifier[v].pc \in {"mark", "user", "insertUser"}
    /\ verifier'[v].pc = "done"
    /\ verifier'[v].status \in {401, 500}

\* C26: when verify-link answers with an error, the link's row is as the
\* lookup found it: used_at is set only by requests that return tokens.
C26_ErrorKeepsLink ==
    [][\A v \in Verifiers :
          VerifyErrorAfterLookup(v)
          => \A r \in magicLinkTokens' :
                 r.id = verifier[v].storedToken.id => r = verifier[v].storedToken]_vars

(***************************************************************************)
(* Properties: the firm a session belongs to                               *)
(***************************************************************************)
\* The claims inside the access token verify-link returned to v.
SessionClaims(v) ==
    ParsePayload(base64UrlDecode(Split(verifier[v].accessToken, 46)[2]))

SignedInPair(v, w) ==
    /\ v # w /\ verifier[v].status = 200 /\ verifier[w].status = 200
    /\ verifier[v].user.email # verifier[w].user.email

\* C25: every session token of verify-link carries a firm_id that is not
\* empty and is the firm of the users row; two users provisioned at their
\* first login for different addresses get different firm_id claims, and
\* neither passes the isolation check for a deal the other created (here the
\* deals are created under session 1 and asked for under session 2).
C25_TenantPerIdentity ==
    /\ \A v \in Verifiers :
          verifier[v].status = 200
          => /\ SessionClaims(v).firm_id # <<>>
             /\ SessionClaims(v).firm_id = verifier[v].user.firm_id
    /\ \A v, w \in Verifiers :
          SignedInPair(v, w) => SessionClaims(v).firm_id # SessionClaims(w).firm_id
    /\ (/\ SignedInPair(1, 2)
        /\ routeReq.route = "GET /api/deals/:id"
        /\ routeReq.user.user_id = verifier[2].user.id)
       => "handler" \notin {routeReq.ran[k] : k \in 1..Len(routeReq.ran)}

(***************************************************************************)
(* Properties: refresh                                                     *)
(***************************************************************************)
\* The claims inside a token of three segments.
TokenClaims(token) == ParsePayload(base64UrlDecode(Split(token, 46)[2]))

\* C24: starting from one link verification, no access token that refresh
\* returns expires later than the refresh token of that verification (seven
\* days) plus sixty minutes.
C24_SessionBounded ==
    verifier[1].status = 200 =>
        \A j \in jwtIssued :
            TokenClaims(j.token).exp
                <= TokenClaims(verifier[1].refreshToken).exp
                   + ACCESS_TOKEN_MINUTES * 60

\* What the presented text is: not three dot-separated segments, three
\* segments whose third is not the HMAC of the first two under JWT_SECRET, or
\* a rightly signed token whose exp has passed.
Malformed(token) == Len(Split(token, 46)) # 3

WronglySigned(token) ==
    LET parts == Split(token, 46) IN
    /\ ~Malformed(token)
    /\ parts[3] # sign(parts[1] \o <<46>> \o parts[2], JWT_SECRET)

Expired(token) ==
    /\ ~Malformed(token) /\ ~WronglySigned(token)
    /\ TokenClaims(token).exp < now \div 1000

FourClaims(p) ==
    [user_id |-> p.user_id, firm_id |-> p.firm_id, email |-> p.email,
     role |-> p.role]

RefreshAnswered == refreshLast.pc = "done" \/ refreshLast.result.pc = "done"

\* A 200 of refresh: the presented token is a rightly signed, unexpired token
\* and the access token returned carries its four claims, iat = now and
\* exp = now + 60 minutes.
RefreshedRight ==
    refreshLast.result.status = 200 =>
        /\ ~Malformed(refreshLast.token)
        /\ ~WronglySigned(refreshLast.token)
        /\ ~Expired(refreshLast.token)
        /\ FourClaims(TokenClaims(refreshLast.accessToken))
               = FourClaims(TokenClaims(refreshLast.token))
        /\ TokenClaims(refreshLast.accessToken).iat = now \div 1000
        /\ TokenClaims(refreshLast.accessToken).exp
               = now \div 1000 + ACCESS_TOKEN_MINUTES * 60

\* Every token refresh has signed carries the subject and the tenant of the
\* session verify-link opened.
SubjectKept ==
    \A j \in jwtIssued :
        FourClaims(TokenClaims(j.token)) = ClaimsOf(verifier[1].user)

\* The call is on its way to createToken, or has been through it.
RefreshSigns ==
    \/ refreshLast.result.pc = "sign"
    \/ refreshLast.accessToken # NoToken

\* C27 as stated: every access token refresh returns carries the user_id,
\* firm_id, email and role of the presented token, with exp = now + 60
\* minutes, so no sequence of refreshes changes the session's subject or
\* tenant; a malformed, wrongly signed or expired token is answered 401 and
\* gets no token.
C27_AnyBadToken401 ==
    /\ RefreshedRight
    /\ SubjectKept
    /\ (/\ RefreshAnswered
        /\ \/ Malformed(refreshLast.token)
           \/ WronglySigned(refreshLast.token)
           \/ Expired(refreshLast.token))
       => /\ refreshLast.result.status = 401
          /\ ~RefreshSigns

\* C27 amended: the same, except that an empty refreshToken is turned away by
\* the validator with 400, and a malformed token that is not empty, a
\* wrongly signed one and an expired one with 401; neither gets a token.
C27_ClaimsCarriedOver ==
    /\ RefreshedRight
    /\ SubjectKept
    /\ (RefreshAnswered /\ Len(refreshLast.token) = 0)
       => /\ refreshLast.result.status = 400
          /\ ~RefreshSigns
    /\ (/\ RefreshAnswered
        /\ Len(refreshLast.token) > 0
        /\ \/ Malformed(refreshLast.token)
           \/ WronglySigned(refreshLast.token)
           \/ Expired(refreshLast.token))
       => /\ refreshLast.result.status = 401
          /\ refreshLast.result.error = "Invalid refresh token"
          /\ ~RefreshSigns

\* After a refresh that returned a token, the client presents a token whose
\* firm_id it has changed, keeping the signature, and gets 401.
C27_Witness ==
    /\ jwtIssued # {}
    /\ RefreshAnswered
    /\ refreshLast.how = <<"tamper", "firm_id", "kept">>
    /\ WronglySigned(refreshLast.token)
    /\ refreshLast.result.status = 401

(***************************************************************************)
(* Properties: the two limiters side by side                               *)
(***************************************************************************)
\* Both limiters have decided on the attempt that arrived last.
PairDecided == issuer[1].pc = "done" /\ limiter[1].pc = "done"

\* C28: for the same attempts (time, key), with limit 3 and a window of one
\* hour, authRateLimit and rateLimit take the same decision on every attempt,
\* the attempt that arrives at the instant of the window's reset included.
C28_SameDecisions ==
    PairDecided =>
        (issuer[1].status = 429 <=> limiter[1].resp.status = 429)

(***************************************************************************)
(* Properties: the status of a workflow                                    *)
(***************************************************************************)
\* The moves of workflows.status the claim allows.
StatusMoves ==
    {<<NoRun, "pending">>, <<"pending", "running">>,
     <<"running", "completed">>, <<"running", "failed">>}

StatusMovesRight ==
    \A id \in RunIds :
        \/ workflowRuns'.status[id] = workflowRuns.status[id]
        \/ <<workflowRuns.status[id], workflowRuns'.status[id]>> \in StatusMoves

\* execute's update leaves the workflow 'running' only if it was 'pending'.
StartsFromPending ==
    \A id \in RunIds :
        (/\ workflowRuns.handler.pc = "update"
         /\ workflowRuns'.handler.pc = "log"
         /\ workflowRuns.handler.id = id)
        => workflowRuns.status[id] = "pending"

\* C30: a workflow's status only moves pending -> running -> completed or
\* failed: execute starts a workflow only from pending, a completed or failed
\* workflow never returns to running, and every workflow set to running
\* eventually reaches completed or failed.
C30_StatusLifecycle ==
    /\ [][StatusMovesRight /\ StartsFromPending]_vars
    /\ \A id \in RunIds :
          (workflowRuns.status[id] = "running")
              ~> (workflowRuns.status[id] \in {"completed", "failed"})

(***************************************************************************)
(* Properties: the refresh of the browser's client                         *)
(***************************************************************************)
\* The requests whose interceptor is waiting for refreshAccessToken.
Refreshing == {r \in ReqIds : client.reqs[r].pc = "refreshing"}

OneRefresh == Cardinality(Refreshing) <= 1

\* This step is the arrival of a 401 for r.
Got401(r) ==
    /\ client.reqs[r].pc = "sent"
    /\ client'.reqs[r].pc \in {"rejected", "queued", "refreshing"}
    /\ client'.reqs[r].resp = 401

QueuedDuringRefresh ==
    \A r \in ReqIds :
        (Got401(r) /\ Refreshing # {} /\ ~client.reqs[r].retry)
        => /\ client'.reqs[r].pc = "queued"
           /\ InQueue(client', r)
           /\ Refreshing' = Refreshing

RetriedOnSuccess ==
    \A r \in ReqIds :
        (client.reqs[r].pc = "refreshing" /\ client'.reqs[r].pc = "sent")
        => /\ client'.accessToken = client.minted + 1
           /\ client'.reqs[r].header = client'.accessToken
           /\ \A q \in ReqIds :
                 client.reqs[q].pc = "queued"
                 => /\ client'.reqs[q].pc = "resolved"
                    /\ client'.reqs[q].token = client'.accessToken

ResumedWithNewToken ==
    \A q \in ReqIds :
        (client.reqs[q].pc = "resolved" /\ client'.reqs[q].pc # "resolved")
        => /\ client'.reqs[q].pc = "sent"
           /\ client'.reqs[q].header = client.reqs[q].token
           /\ client'.reqs[q].header = client.minted

RejectedOnFailure ==
    \A r \in ReqIds :
        (client.reqs[r].pc = "refreshing" /\ client'.reqs[r].pc = "rejected")
        => \A q \in ReqIds :
              client.reqs[q].pc = "queued" => client'.reqs[q].pc = "rejected"

\* C21: when several requests get a 401 concurrently, at most one refresh
\* request is in flight at any time; the other requests are queued while it
\* is, and when it succeeds every queued request is sent again with the new
\* access token, and when it fails every queued request is rejected.
C21_OneRefreshOthersQueued ==
    /\ []OneRefresh
    /\ [][/\ QueuedDuringRefresh /\ RetriedOnSuccess
          /\ ResumedWithNewToken /\ RejectedOnFailure]_vars

\* Two requests got a 401 for the first token: one refreshed, the other was
\* queued, and both are on their way again with the second token.
C21_Witness ==
    \E r, q \in ReqIds :
        /\ r # q /\ ~client.isRefreshing /\ client.accessToken = 2
        /\ client.reqs[r].retry /\ client.reqs[r].pc = "sent"
        /\ client.reqs[r].header = 2
        /\ client.reqs[q].wasQueued /\ client.reqs[q].pc = "sent"
        /\ client.reqs[q].resp = 401 /\ client.reqs[q].header = 2

\* C29: every refresh attempt ends with isRefreshing back to false and with
\* every queued request retried or rejected, whether the refresh succeeds,
\* fails or finds no refresh token stored: no request stays queued for ever
\* and a later 401 can start a new refresh.
C29_RefreshAlwaysEnds ==
    /\ client.isRefreshing ~> ~client.isRefreshing
    /\ \A q \in ReqIds :
          (client.reqs[q].pc = "queued")
              ~> (client.reqs[q].pc \in {"resolved", "sent", "done", "rejected"})

====
